---- MODULE Spec2Model ----
(***************************************************************************)
(* A model of the LBO engine of company_valuation (lbo.py): the debt       *)
(* schedule simulator LBOModel.run_model, the Sources & Uses table, and    *)
(* the entry-multiple solver LBOModel.solve_for_entry_multiple.            *)
(*                                                                         *)
(* Numbers.  The program computes in floats; the model computes the same   *)
(* expressions exactly, in fixed point:                                    *)
(*   - a rate (interest, amortization, tax) is a numerator over RateDen;   *)
(*   - a fee percentage is a numerator over FeeDen;                        *)
(*   - a multiple is a numerator over MultDen = 2^SolverMaxIterations, so  *)
(*     that every bisection midpoint of the solver is exact;               *)
(*   - money is a whole number of ticks, Unit(n) ticks to the currency     *)
(*     unit for a model of n projection years, chosen so that every        *)
(*     product and quotient the program forms is a whole number of ticks;  *)
(*   - MOIC is a fraction <<num, den>>; IRR = MOIC^(1/years) - 1 is kept   *)
(*     as that root and compared with a rational through powers.           *)
(***************************************************************************)
EXTENDS Integers, Sequences, FiniteSets, TLC

\* ------------------------------------------------------------------ bounds

\* Rates are multiples of 1/RateDen.
RateDen == 2

\* Fee percentages are multiples of 1/FeeDen (1/50 = the default 0.02).
FeeDen == 50

\* The solver's loop cap, range(50) in the source; the model caps the
\* bisection here, and multiples are exact to 2^-SolverMaxIterations.
SolverMaxIterations == 3

\* Top-level calls the caller makes on one model instance.
MaxCalls == 2

\* ----------------------------------------------------------------- helpers

RECURSIVE Pow(_, _)
Pow(b, e) == IF e = 0 THEN 1 ELSE b * Pow(b, e - 1)

MultDen == Pow(2, SolverMaxIterations)

\* Ticks per currency unit for a model of n projection years.
Unit(n) == Pow(RateDen, 2 * n) * MultDen * FeeDen

Abs(x) == IF x < 0 THEN -x ELSE x
Min(a, b) == IF a < b THEN a ELSE b
Max(a, b) == IF a > b THEN a ELSE b

RECURSIVE Gcd(_, _)
Gcd(a, b) == IF b = 0 THEN Abs(a) ELSE Gcd(b, a % b)

RECURSIVE SeqSum(_)
SeqSum(s) == IF s = << >> THEN 0 ELSE Head(s) + SeqSum(Tail(s))

\* A fraction <<n, d>> with d > 0, in lowest terms.
Frac(n, d) ==
    LET g == Gcd(Abs(n), Abs(d))
        s == IF d < 0 THEN -1 ELSE 1
    IN  IF g = 0 THEN <<0, 1>> ELSE <<s * (n \div g), s * (d \div g)>>

FracLess(x, y) == x[1] * y[2] < y[1] * x[2]
FracAdd(x, y)  == Frac(x[1] * y[2] + y[1] * x[2], x[2] * y[2])
FracSub(x, y)  == Frac(x[1] * y[2] - y[1] * x[2], x[2] * y[2])
FracPow(x, e)  == <<Pow(x[1], e), Pow(x[2], e)>>
FracMul(x, y)  == Frac(x[1] * y[1], x[2] * y[2])
FracDiv(x, y)  == Frac(x[1] * y[2], x[2] * y[1])

\* a / b < c / d for b > 0 and d > 0, by continued fractions: no product is
\* formed, so the comparison stays within the integers at hand.
RECURSIVE FracBelow(_, _, _, _)
FracBelow(a, b, c, d) ==
    IF a \div b # c \div d THEN a \div b < c \div d
    ELSE IF c % d = 0 THEN FALSE
    ELSE IF a % b = 0 THEN TRUE
    ELSE FracBelow(d, c % d, b, a % b)

MoicLess(x, y) == FracBelow(x[1], x[2], y[1], y[2])

\* x = y as numbers, for fractions with positive denominators.
MoicSame(x, y) == ~MoicLess(x, y) /\ ~MoicLess(y, x)

\* ------------------------------------------------------------ data classes

\* DebtTranche, amount in currency units (scaled to ticks by Init); interest_rate
\* is a numerator over RateDen, amortization_rate a fraction <<n, d>>.
DebtTranche(name, amount, interest_rate, amortization_rate, is_revolver, revolver_commitment, cash_sweep_priority) ==
    [name |-> name, amount |-> amount, interest_rate |-> interest_rate,
     amortization_rate |-> amortization_rate, is_revolver |-> is_revolver,
     revolver_commitment |-> revolver_commitment,
     cash_sweep_priority |-> cash_sweep_priority]

annual_amortization(t, original_amount) ==
    (original_amount * t.amortization_rate[1]) \div t.amortization_rate[2]

interest_expense(t, balance) == (balance * t.interest_rate) \div RateDen

LBOProjection(year, ebitda, capex, delta_nwc, tax_rate, depreciation) ==
    [year |-> year, ebitda |-> ebitda, capex |-> capex, delta_nwc |-> delta_nwc,
     tax_rate |-> tax_rate, depreciation |-> depreciation]

\* --------------------------------------------------- the inputs of the model

\* Capital structures, amounts in currency units.
TrancheSets ==
    { << DebtTranche("Senior", 2, 0, <<1, RateDen>>, FALSE, 0, 1),
         DebtTranche("Mezz", 2, 1, <<0, 1>>, FALSE, 0, 2) >>,
      << DebtTranche("Mezz", 2, 1, <<0, 1>>, FALSE, 0, 2),
         DebtTranche("Senior", 4, 0, <<1, RateDen>>, FALSE, 0, 1) >>,
      << DebtTranche("Senior", 3, 1, <<0, 1>>, FALSE, 0, 1),
         DebtTranche("Revolver", 0, 1, <<1, RateDen>>, TRUE, 2, 1) >>,
      << DebtTranche("Revolver", 1, 1, <<0, 1>>, TRUE, 2, 1) >>,
      << DebtTranche("Revolver", 1, 1, <<0, 1>>, TRUE, 2, 1),
         DebtTranche("Revolver2", 0, 0, <<0, 1>>, TRUE, 1, 1) >>,
      << DebtTranche("Unitranche", 6, 0, <<1, RateDen>>, FALSE, 0, 1) >>,
      << DebtTranche("Senior", -1, 1, <<1, RateDen>>, FALSE, 0, 1) >> }

\* Projection lists, money in currency units.
ProjectionSets ==
    { << >>,
      << LBOProjection(1, 6, 1, 0, 0, 0) >>,
      << LBOProjection(1, 4, 1, 0, 1, 1), LBOProjection(2, 6, 1, 0, 1, 1) >>,
      << LBOProjection(1, 1, 3, 1, 1, 0), LBOProjection(2, 6, 1, 0, 0, 0) >>,
      << LBOProjection(1, 2, 0, 0, 0, 0), LBOProjection(2, 0, 1, 0, 1, 0),
         LBOProjection(3, 4, 0, 0, 1, 2) >> }

EntryEbitdas == {2}
EntryMultiples == {2, 4}
ExitMultiples == {2, 3}
FeePcts == {<<0, 0>>, <<1, 1>>}

ScaleTranche(t, u) ==
    [t EXCEPT !.amount = @ * u, !.revolver_commitment = @ * u]

ScaleProjection(p, u) ==
    [p EXCEPT !.ebitda = @ * u, !.capex = @ * u, !.delta_nwc = @ * u,
              !.depreciation = @ * u]

\* --------------------------------------------------------------- the state

VARIABLES
    entry_ebitda,          \* LBOModel.entry_ebitda, ticks
    entry_multiple,        \* LBOModel.entry_multiple, numerator over MultDen
    debt_tranches,         \* LBOModel.debt_tranches, a sequence of DebtTranche
    projections,           \* LBOModel.projections, a sequence of LBOProjection
    exit_multiple,         \* LBOModel.exit_multiple, a whole number
    transaction_fees_pct,  \* numerator over FeeDen
    financing_fees_pct,    \* numerator over FeeDen
    pc,                    \* where the running call stands; "idle" between calls
    rm,                    \* the frame (arguments and locals) of run_model
    result,                \* what the last run_model returned
    prev_result,           \* what the run_model call before it returned
    sv,                    \* the frame of solve_for_entry_multiple
    sau,                   \* the SourcesAndUses table at hand
    balanced,              \* what is_balanced last returned
    last,                  \* the last top-level call and how it ended
    calls,                 \* top-level calls made so far
    solved,                \* what solve_for_entry_multiple last returned
    pre,                   \* the model as the running top-level call found it
    built,                 \* how the instance was constructed, and from what
    other,                 \* a second run_model invocation, while it is suspended
    sa,                    \* the frame of lbo_sensitivity and the table it returned
    beta                   \* the last BetaCalculator call: arguments and outcome

vars == <<entry_ebitda, entry_multiple, debt_tranches, projections, exit_multiple,
          transaction_fees_pct, financing_fees_pct, pc, rm, result, prev_result,
          sv, sau, balanced, last, calls, solved, pre, built, other, sa, beta>>

\* The state of the LBO model and of the calls on it.
lboVars == <<entry_ebitda, entry_multiple, debt_tranches, projections,
             exit_multiple, transaction_fees_pct, financing_fees_pct, pc, rm,
             result, prev_result, sv, sau, balanced, last, calls, solved, pre,
             built, other, sa>>

modelVars == <<entry_ebitda, entry_multiple, debt_tranches, projections,
               exit_multiple, transaction_fees_pct, financing_fees_pct, built>>

\* ------------------------------------------------ LBOModel: derived amounts

\* purchase_price: entry_ebitda * entry_multiple.
purchase_price == (entry_ebitda * entry_multiple) \div MultDen

\* total_initial_debt: sum(t.amount for t in self.debt_tranches).
total_initial_debt ==
    SeqSum([i \in 1..Len(debt_tranches) |-> debt_tranches[i].amount])

transaction_fees == (purchase_price * transaction_fees_pct) \div FeeDen

financing_fees == (total_initial_debt * financing_fees_pct) \div FeeDen

\* The equity plug with the fees left out of the uses.
initial_equity_no_fees == purchase_price - total_initial_debt

initial_equity ==
    purchase_price + transaction_fees + financing_fees - total_initial_debt

\* ------------------------------------------------------- SourcesAndUses

SourcesAndUses(term_loan, revolver_draw, other_debt, sponsor_equity, rollover_equity, equity_purchase, refinance_debt, fees_t, fees_f) ==
    [term_loan |-> term_loan, revolver_draw |-> revolver_draw,
     other_debt |-> other_debt, sponsor_equity |-> sponsor_equity,
     rollover_equity |-> rollover_equity, equity_purchase |-> equity_purchase,
     refinance_debt |-> refinance_debt, transaction_fees |-> fees_t,
     financing_fees |-> fees_f]

total_sources(s) ==
    s.term_loan + s.revolver_draw + s.other_debt + s.sponsor_equity
        + s.rollover_equity

total_uses(s) ==
    s.equity_purchase + s.refinance_debt + s.transaction_fees + s.financing_fees

total_debt(s) == s.term_loan + s.revolver_draw + s.other_debt

\* The comparison made inclusive: a difference equal to the tolerance passes.
is_balanced_inclusive(s, tolerance, u) ==
    Abs(total_sources(s) - total_uses(s)) * tolerance[2] <= tolerance[1] * u

\* is_balanced: abs(total_sources - total_uses) < tolerance, the tolerance a
\* fraction <<n, d>> of the currency unit, the table in ticks of u to the unit.
is_balanced(s, tolerance, u) ==
    Abs(total_sources(s) - total_uses(s)) * tolerance[2] < tolerance[1] * u

\* ----------------------------------------------------- run_model: helpers

Names == {debt_tranches[i].name : i \in 1..Len(debt_tranches)}

\* {t.name: t.amount for t in self.debt_tranches}: a later tranche of the
\* same name overwrites an earlier one.
RECURSIVE AmountsByName(_, _)
AmountsByName(i, d) ==
    IF i > Len(debt_tranches) THEN d
    ELSE AmountsByName(i + 1,
            [d EXCEPT ![debt_tranches[i].name] = debt_tranches[i].amount])

InitialBalances == AmountsByName(1, [n \in Names |-> 0])

\* sum(debt_balances.values())
RECURSIVE SumValues(_, _)
SumValues(d, S) ==
    IF S = {} THEN 0
    ELSE LET n == CHOOSE x \in S : TRUE IN d[n] + SumValues(d, S \ {n})

SumBalances(d) == SumValues(d, DOMAIN d)

\* sum(t.interest_expense(debt_balances[t.name]) for t in self.debt_tranches)
TotalInterest(bal) ==
    SeqSum([i \in 1..Len(debt_tranches) |->
                interest_expense(debt_tranches[i], bal[debt_tranches[i].name])])

\* The free cash flow with a negative tax, a refund, let through.
calculate_free_cash_flow_with_refund(proj, interest) ==
    LET taxable_income == proj.ebitda - proj.depreciation - interest
        taxes == (taxable_income * proj.tax_rate) \div RateDen
    IN  proj.ebitda - interest - taxes - proj.capex - proj.delta_nwc

\* _calculate_free_cash_flow
calculate_free_cash_flow(proj, interest) ==
    LET taxable_income == proj.ebitda - proj.depreciation - interest
        taxes == Max(0, (taxable_income * proj.tax_rate) \div RateDen)
    IN  proj.ebitda - interest - taxes - proj.capex - proj.delta_nwc

\* abs(x) < threshold for x in ticks and a threshold <<n, d>> in currency units.
BelowThreshold(x, threshold) ==
    Abs(x) * threshold[2] < threshold[1] * Unit(Len(projections))

\* The inner loop with each pass adding the interest to that of the pass before.
RECURSIVE InterestLoopCompounding(_, _, _, _, _, _)
InterestLoopCompounding(iteration, max_iterations, threshold, proj, prev_interest, st) ==
    IF iteration >= max_iterations THEN st
    ELSE LET ti == prev_interest + TotalInterest(st.bal)
             f  == calculate_free_cash_flow(proj, ti)
             s1 == [st EXCEPT !.total_interest = ti, !.fcf = f, !.bound = TRUE,
                              !.evals = @ + 1]
         IN  IF BelowThreshold(ti - prev_interest, threshold) THEN s1
             ELSE InterestLoopCompounding(iteration + 1, max_iterations,
                                          threshold, proj, ti, s1)

\* The inner loop, for iteration in range(max_iterations): st carries
\* total_interest, fcf (bound once the body has run), and the evaluations made.
RECURSIVE InterestLoop(_, _, _, _, _, _)
InterestLoop(iteration, max_iterations, threshold, proj, prev_interest, st) ==
    IF iteration >= max_iterations THEN st
    ELSE LET ti == TotalInterest(st.bal)
             f  == calculate_free_cash_flow(proj, ti)
             s1 == [st EXCEPT !.total_interest = ti, !.fcf = f, !.bound = TRUE,
                              !.evals = @ + 1]
         IN  IF BelowThreshold(ti - prev_interest, threshold) THEN s1
             ELSE InterestLoop(iteration + 1, max_iterations, threshold, proj,
                               ti, s1)

\* The amortization without its cap at the balance.
MandatoryPaymentUncapped(t, original_amount, balance) ==
    annual_amortization(t, original_amount)

\* The amortization on a schedule that follows the current balance.
MandatoryPaymentOnBalance(t, original_amount, balance) ==
    Min(annual_amortization(t, balance), balance)

\* The amortization accruing to the balance in place of being paid.
MandatoryPaymentAccrued(t, original_amount, balance) ==
    -annual_amortization(t, original_amount)

\* Lines 259-260: the amortization a tranche pays, capped at its balance.
MandatoryPayment(t, original_amount, balance) ==
    Min(annual_amortization(t, original_amount), balance)

\* The mandatory amortization loop over self.debt_tranches from tranche i on:
\* <<balances, mandatory_paydown>>.
RECURSIVE AmortizeFrom(_, _, _, _)
AmortizeFrom(i, bal, orig, paid) ==
    IF i > Len(debt_tranches) THEN <<bal, paid>>
    ELSE LET t == debt_tranches[i] IN
         IF t.is_revolver THEN AmortizeFrom(i + 1, bal, orig, paid)
         ELSE LET amort == MandatoryPayment(t, orig[t.name], bal[t.name])
              IN  AmortizeFrom(i + 1, [bal EXCEPT ![t.name] = @ - amort], orig,
                               paid + amort)

\* sorted(..., key=lambda x: x.cash_sweep_priority): a stable sort.
RECURSIVE InsertByPriority(_, _)
InsertByPriority(t, s) ==
    IF s = << >> THEN <<t>>
    ELSE IF Head(s).cash_sweep_priority <= t.cash_sweep_priority
         THEN <<Head(s)>> \o InsertByPriority(t, Tail(s))
         ELSE <<t>> \o s

RECURSIVE SortByPriority(_, _)
SortByPriority(s, acc) ==
    IF s = << >> THEN acc
    ELSE SortByPriority(Tail(s), InsertByPriority(Head(s), acc))

NonRevolvers == SelectSeq(debt_tranches, LAMBDA t : ~t.is_revolver)

\* The non-revolver tranches in list order, unsorted.
unsorted_tranches == NonRevolvers

sorted_tranches == SortByPriority(NonRevolvers, << >>)

\* The sweep paying the first tranche in priority order and no other.
SweepFirstOnly(s, bal, remaining_cash, swept, paid) ==
    IF s = << >> \/ remaining_cash <= 0 THEN <<bal, swept, paid>>
    ELSE LET t == Head(s)
             paydown == Min(remaining_cash, bal[t.name])
         IN  <<[bal EXCEPT ![t.name] = @ - paydown], swept + paydown,
               [paid EXCEPT ![t.name] = @ + paydown]>>

\* The sweep loop over sorted_tranches s: <<balances, sweep_paydown, the paydown
\* each tranche received>>.
RECURSIVE SweepFrom(_, _, _, _, _)
SweepFrom(s, bal, remaining_cash, swept, paid) ==
    IF s = << >> \/ remaining_cash <= 0 THEN <<bal, swept, paid>>
    ELSE LET t == Head(s)
             paydown == Min(remaining_cash, bal[t.name])
         IN  SweepFrom(Tail(s), [bal EXCEPT ![t.name] = @ - paydown],
                       remaining_cash - paydown, swept + paydown,
                       [paid EXCEPT ![t.name] = @ + paydown])

\* The revolver loop acting on the last revolver of the list alone.
RECURSIVE RevolverLastOnly(_, _, _, _, _)
RevolverLastOnly(i, bal, cash_for_sweep, sweep_paydown, revolver_change) ==
    IF i > Len(debt_tranches) THEN <<bal, revolver_change>>
    ELSE LET t == debt_tranches[i]
             is_last == \A j \in (i + 1)..Len(debt_tranches) :
                            ~debt_tranches[j].is_revolver
             change == IF cash_for_sweep < 0
                       THEN Min(-cash_for_sweep,
                                t.revolver_commitment - bal[t.name])
                       ELSE IF cash_for_sweep > 0 /\ sweep_paydown = 0
                       THEN -Min(cash_for_sweep, bal[t.name])
                       ELSE 0
         IN  IF t.is_revolver /\ is_last
             THEN <<[bal EXCEPT ![t.name] = @ + change], change>>
             ELSE RevolverLastOnly(i + 1, bal, cash_for_sweep, sweep_paydown,
                                   revolver_change)

\* The revolver loop repaying from positive cash also after a sweep.
RECURSIVE RevolverRepayAlways(_, _, _, _, _)
RevolverRepayAlways(i, bal, cash_for_sweep, sweep_paydown, revolver_change) ==
    IF i > Len(debt_tranches) THEN <<bal, revolver_change>>
    ELSE LET t == debt_tranches[i]
             change == IF cash_for_sweep < 0
                       THEN Min(-cash_for_sweep,
                                t.revolver_commitment - bal[t.name])
                       ELSE IF cash_for_sweep > 0
                       THEN -Min(cash_for_sweep, bal[t.name])
                       ELSE revolver_change
         IN  IF t.is_revolver
             THEN RevolverRepayAlways(i + 1, [bal EXCEPT ![t.name] = @ + change],
                                      cash_for_sweep, sweep_paydown, change)
             ELSE RevolverRepayAlways(i + 1, bal, cash_for_sweep, sweep_paydown,
                                      revolver_change)

\* The revolver loop drawing the whole shortfall, the commitment ignored.
RECURSIVE RevolverUncapped(_, _, _, _, _)
RevolverUncapped(i, bal, cash_for_sweep, sweep_paydown, revolver_change) ==
    IF i > Len(debt_tranches) THEN <<bal, revolver_change>>
    ELSE LET t == debt_tranches[i] IN
         IF ~t.is_revolver
         THEN RevolverUncapped(i + 1, bal, cash_for_sweep, sweep_paydown,
                               revolver_change)
         ELSE IF cash_for_sweep < 0
         THEN LET draw == -cash_for_sweep
              IN  RevolverUncapped(i + 1, [bal EXCEPT ![t.name] = @ + draw],
                                   cash_for_sweep, sweep_paydown, draw)
         ELSE IF cash_for_sweep > 0 /\ sweep_paydown = 0
         THEN LET repay == Min(cash_for_sweep, bal[t.name])
              IN  RevolverUncapped(i + 1, [bal EXCEPT ![t.name] = @ - repay],
                                   cash_for_sweep, sweep_paydown, -repay)
         ELSE RevolverUncapped(i + 1, bal, cash_for_sweep, sweep_paydown,
                               revolver_change)

\* The revolver loop over self.debt_tranches from tranche i on:
\* <<balances, revolver_change>>.
RECURSIVE RevolverFrom(_, _, _, _, _)
RevolverFrom(i, bal, cash_for_sweep, sweep_paydown, revolver_change) ==
    IF i > Len(debt_tranches) THEN <<bal, revolver_change>>
    ELSE LET t == debt_tranches[i] IN
         IF ~t.is_revolver
         THEN RevolverFrom(i + 1, bal, cash_for_sweep, sweep_paydown,
                           revolver_change)
         ELSE IF cash_for_sweep < 0
         THEN LET draw == Min(-cash_for_sweep,
                              t.revolver_commitment - bal[t.name])
              IN  RevolverFrom(i + 1, [bal EXCEPT ![t.name] = @ + draw],
                               cash_for_sweep, sweep_paydown, draw)
         ELSE IF cash_for_sweep > 0 /\ sweep_paydown = 0
         THEN LET repay == Min(cash_for_sweep, bal[t.name])
              IN  RevolverFrom(i + 1, [bal EXCEPT ![t.name] = @ - repay],
                               cash_for_sweep, sweep_paydown, -repay)
         ELSE RevolverFrom(i + 1, bal, cash_for_sweep, sweep_paydown,
                           revolver_change)

\* The root taken of any MOIC, the guard moic > 0 left out.
IrrUnguarded(moic, years) ==
    [zero |-> FALSE, moic |-> moic, years |-> years]

\* irr = (moic ** (1 / years)) - 1 if moic > 0 and years > 0 else 0:
\* zero, or the years-th root of moic, less one.
Irr(moic, years) ==
    IF moic[1] > 0 /\ years > 0
    THEN [zero |-> FALSE, moic |-> moic, years |-> years]
    ELSE [zero |-> TRUE, moic |-> <<0, 1>>, years |-> 1]

\* irr > x, for a fraction x.
IrrGreater(irr, x) ==
    IF irr.zero THEN x[1] < 0
    ELSE LET g == Frac(x[1] + x[2], x[2])
         IN  g[1] <= 0 \/ FracLess(FracPow(g, irr.years), irr.moic)

\* irr < x, for a fraction x.
IrrLess(irr, x) ==
    IF irr.zero THEN x[1] > 0
    ELSE LET g == Frac(x[1] + x[2], x[2])
         IN  g[1] > 0 /\ FracLess(irr.moic, FracPow(g, irr.years))

\* ------------------------------------------------------------ the frames

NoResult == [returned |-> FALSE]

\* The instance was made by LBOModel(...), line 143.
ByConstructor == [by |-> "LBOModel"]

\* No second invocation of run_model.
NoOther == [live |-> FALSE]

\* No invocation of run_model is suspended: the calling thread has the instance
\* to itself.
Joined == other.live => other.pc = "idle"

NoTable == [made |-> FALSE]

\* No BetaCalculator call made.
NoBeta ==
    [call |-> "none", args |-> << >>, error |-> "none", message |-> "",
     value |-> <<0, 1>>]

\* float('nan'), the cell of a calculation that raised.
NaN == [nan |-> TRUE, irr |-> [zero |-> TRUE, moic |-> <<0, 1>>, years |-> 1]]

\* No lbo_sensitivity call in progress, no table returned.
NoSens ==
    [at |-> "none", base_entry |-> 0, base_exit |-> 0, entry_multiples |-> << >>,
     exit_multiples |-> << >>, row |-> 0, col |-> 0, cell |-> NaN,
     results |-> << >>]

NoBalanced == [returned |-> FALSE]

\* No run_model call in progress.
NoRun ==
    [caller |-> "none", max_iterations |-> 0, convergence_threshold |-> <<0, 1>>,
     year |-> 0, debt_balances |-> << >>, original_amounts |-> << >>,
     yearly_results |-> << >>, total_paydown |-> 0, total_interest |-> 0,
     fcf |-> 0, bound |-> FALSE, evals |-> 0, mandatory_paydown |-> 0,
     cash_for_sweep |-> 0, sweep_paydown |-> 0, sweep_paid |-> << >>,
     revolver_change |-> 0]

\* No solve_for_entry_multiple call in progress.
NoSolve ==
    [target_irr |-> <<0, 1>>, tolerance |-> <<0, 1>>, original_multiple |-> 0,
     min_multiple |-> 0, max_multiple |-> 0, low |-> 0, high |-> 0, mid |-> 0,
     iteration |-> 0, trials |-> 0, result |-> NoResult, irrs |-> << >>,
     mids |-> << >>,
     exit_equity |-> 0]

Snapshot ==
    [entry_multiple |-> entry_multiple, exit_multiple |-> exit_multiple,
     debt_tranches |-> debt_tranches, projections |-> projections,
     built |-> built]

\* The arguments run_model is called with; the first are its defaults.
RunArgs ==
    { [max_iterations |-> 10, convergence_threshold |-> <<1, 100>>],
      [max_iterations |-> 1, convergence_threshold |-> <<1, 100>>],
      [max_iterations |-> 3, convergence_threshold |-> <<0, 1>>],
      [max_iterations |-> 0, convergence_threshold |-> <<1, 100>>] }

DefaultRunArgs == [max_iterations |-> 10, convergence_threshold |-> <<1, 100>>]

\* ------------------------------------------------------------------- Init

Init ==
    /\ \E ts \in TrancheSets, ps \in ProjectionSets, e \in EntryEbitdas,
          m \in EntryMultiples, x \in ExitMultiples, f \in FeePcts :
          LET u == Unit(Len(ps)) IN
          /\ entry_ebitda = e * u
          /\ entry_multiple = m * MultDen
          /\ debt_tranches = [i \in 1..Len(ts) |-> ScaleTranche(ts[i], u)]
          /\ projections = [i \in 1..Len(ps) |-> ScaleProjection(ps[i], u)]
          /\ exit_multiple = x
          /\ transaction_fees_pct = f[1]
          /\ financing_fees_pct = f[2]
    /\ pc = "idle"
    /\ rm = NoRun
    /\ result = NoResult
    /\ prev_result = NoResult
    /\ sv = NoSolve
    /\ sau = NoTable
    /\ balanced = NoBalanced
    /\ last = [call |-> "none", outcome |-> "none", error |-> "none"]
    /\ calls = 0
    /\ solved = NoResult
    /\ built = ByConstructor
    /\ pre = Snapshot
    /\ other = NoOther
    /\ sa = NoSens
    /\ beta = NoBeta

\* ---------------------------------------------------------------- run_model

\* Lines 228-234: the locals of a fresh call.
RunModelFrame(caller, args) ==
    [NoRun EXCEPT !.caller = caller,
                  !.max_iterations = args.max_iterations,
                  !.convergence_threshold = args.convergence_threshold,
                  !.year = 1,
                  !.debt_balances = InitialBalances,
                  !.original_amounts = InitialBalances,
                  !.sweep_paid = [n \in Names |-> 0]]

\* The for loop over self.projections: the next statement after year y is done.
LoopHead(y) == IF y > Len(projections) THEN "rm_exit" ELSE "rm_interest"

\* The tranches with each amount overwritten by the balance the run ended with.
TranchesKeepBalance(bal) ==
    [i \in 1..Len(debt_tranches) |->
        [debt_tranches[i] EXCEPT !.amount = bal[debt_tranches[i].name]]]

\* run_model never assigns a tranche's amount: the tranches as a run leaves them.
TranchesAfterRun(bal) == debt_tranches

\* An exception leaves run_model: it passes through the solver, when that is
\* the caller, and reaches the top-level caller; under lbo_sensitivity it
\* reaches calc_irr's finally and create_table's except.
RunModelRaises(error) ==
    /\ rm' = NoRun
    /\ debt_tranches' = TranchesAfterRun(rm.debt_balances)
    /\ IF rm.caller = "sensitivity"
       THEN /\ pc' = "sa_finally"
            /\ sa' = [sa EXCEPT !.cell = NaN]
            /\ UNCHANGED <<sv, result, prev_result, last, calls>>
       ELSE /\ pc' = "idle"
            /\ sv' = NoSolve
            /\ result' = NoResult
            /\ prev_result' = NoResult
            /\ last' = [last EXCEPT !.outcome = "raised", !.error = error]
            /\ calls' = calls + 1
            /\ sa' = sa
    /\ solved' = solved
    /\ UNCHANGED <<built, entry_ebitda, entry_multiple, projections, exit_multiple,
                   transaction_fees_pct, financing_fees_pct, sau, balanced, pre>>

\* The caller calls run_model(max_iterations, convergence_threshold).
CallRunModel ==
    /\ pc = "idle"
    /\ Joined
    /\ calls < MaxCalls
    /\ \E args \in RunArgs :
          rm' = RunModelFrame("user", args)
    /\ prev_result' = IF last.call \in {"run_model", "set_exit_multiple", "simple_lbo"}
                      THEN result ELSE NoResult
    /\ result' = NoResult
    /\ sau' = NoTable
    /\ balanced' = NoBalanced
    /\ solved' = IF last.call = "set_entry_multiple" THEN solved ELSE NoResult
    /\ pc' = LoopHead(1)
    /\ last' = [call |-> "run_model", outcome |-> "running", error |-> "none"]
    /\ pre' = Snapshot
    /\ UNCHANGED <<modelVars, sv, calls>>
    /\ UNCHANGED other
    /\ sa' = NoSens
    /\ UNCHANGED beta

\* Lines 238-253: the interest / free cash flow loop of one year.
ResolveCircularity ==
    /\ pc = "rm_interest"
    /\ LET st == InterestLoop(0, rm.max_iterations, rm.convergence_threshold,
                              projections[rm.year], 0,
                              [total_interest |-> rm.total_interest,
                               fcf |-> rm.fcf, bound |-> rm.bound, evals |-> 0,
                               bal |-> rm.debt_balances])
       IN  rm' = [rm EXCEPT !.total_interest = st.total_interest,
                            !.fcf = st.fcf, !.bound = st.bound,
                            !.evals = st.evals]
    /\ pc' = "rm_amort"
    /\ UNCHANGED <<modelVars, result, prev_result, sv, sau, balanced, last,
                   calls, solved, pre>>
    /\ UNCHANGED other
    /\ UNCHANGED sa
    /\ UNCHANGED beta

\* Lines 255-265: mandatory amortization, then cash_for_sweep, which reads fcf.
MandatoryAmortization ==
    /\ pc = "rm_amort"
    /\ LET a == AmortizeFrom(1, rm.debt_balances, rm.original_amounts, 0) IN
       IF rm.bound
       THEN /\ rm' = [rm EXCEPT !.debt_balances = a[1],
                                !.mandatory_paydown = a[2],
                                !.cash_for_sweep = rm.fcf - a[2]]
            /\ pc' = "rm_sweep"
            /\ UNCHANGED <<modelVars, result, prev_result, sv, sau, balanced,
                           last, calls, solved, pre, sa>>
       ELSE RunModelRaises("UnboundLocalError")
    /\ UNCHANGED other
    /\ UNCHANGED beta

\* Lines 267-283: the cash sweep in priority order.
CashSweep ==
    /\ pc = "rm_sweep"
    /\ LET none == [n \in Names |-> 0]
           s == IF rm.cash_for_sweep > 0
                THEN SweepFrom(sorted_tranches, rm.debt_balances,
                               rm.cash_for_sweep, 0, none)
                ELSE <<rm.debt_balances, 0, none>>
       IN  rm' = [rm EXCEPT !.debt_balances = s[1], !.sweep_paydown = s[2],
                            !.sweep_paid = s[3]]
    /\ pc' = "rm_revolver"
    /\ UNCHANGED <<modelVars, result, prev_result, sv, sau, balanced, last,
                   calls, solved, pre>>
    /\ UNCHANGED other
    /\ UNCHANGED sa
    /\ UNCHANGED beta

\* The year's paydown with a revolver draw counted as paydown.
YearPaydownDrawAdded(mandatory_paydown, sweep_paydown, revolver_change) ==
    mandatory_paydown + sweep_paydown + revolver_change

\* Line 301: a revolver draw is negative paydown.
YearPaydown(mandatory_paydown, sweep_paydown, revolver_change) ==
    mandatory_paydown + sweep_paydown - revolver_change

\* The ledger row carrying the first projection's year and EBITDA.
LedgerRowOfFirstYear(proj, f, bal) ==
    [year |-> projections[1].year, ebitda |-> projections[1].ebitda,
     interest_expense |-> f.total_interest, fcf |-> f.fcf,
     mandatory_amortization |-> f.mandatory_paydown,
     cash_sweep |-> f.sweep_paydown, revolver_change |-> f.revolver_change,
     ending_debt |-> SumBalances(bal)]

\* The ledger row of lines 304-313.
LedgerRow(proj, f, bal) ==
    [year |-> proj.year, ebitda |-> proj.ebitda,
     interest_expense |-> f.total_interest, fcf |-> f.fcf,
     mandatory_amortization |-> f.mandatory_paydown,
     cash_sweep |-> f.sweep_paydown, revolver_change |-> f.revolver_change,
     ending_debt |-> SumBalances(bal)]

\* Lines 285-313: the revolver, the year's paydown and the ledger row.
HandleRevolver ==
    /\ pc = "rm_revolver"
    /\ LET r == RevolverFrom(1, rm.debt_balances, rm.cash_for_sweep,
                             rm.sweep_paydown, 0)
           year_paydown == YearPaydown(rm.mandatory_paydown, rm.sweep_paydown,
                                       r[2])
           f == [rm EXCEPT !.debt_balances = r[1], !.revolver_change = r[2],
                           !.total_paydown = @ + year_paydown]
       IN  rm' = [f EXCEPT !.yearly_results =
                               Append(@, LedgerRow(projections[rm.year], f, r[1])),
                           !.year = @ + 1]
    /\ pc' = LoopHead(rm.year + 1)
    /\ UNCHANGED <<modelVars, result, prev_result, sv, sau, balanced, last,
                   calls, solved, pre>>
    /\ UNCHANGED other
    /\ UNCHANGED sa
    /\ UNCHANGED beta

\* The LBOResult with the MOIC upside down: entry equity over exit equity.
LBOResultMoicInverted ==
    LET years == Len(projections)
        final_ebitda == projections[Len(projections)].ebitda
        exit_ev == final_ebitda * exit_multiple
        exit_debt == SumBalances(rm.debt_balances)
        exit_equity == exit_ev - exit_debt
        moic == IF initial_equity > 0 /\ exit_equity # 0
                THEN Frac(initial_equity, exit_equity)
                ELSE <<0, 1>>
    IN  [entry_equity |-> initial_equity, exit_equity |-> exit_equity,
         moic |-> moic, irr |-> Irr(moic, years),
         exit_enterprise_value |-> exit_ev, exit_net_debt |-> exit_debt,
         total_debt_paydown |-> rm.total_paydown,
         yearly_results |-> rm.yearly_results]

\* The LBOResult with the exit valued at the entry multiple.
LBOResultAtEntryMultiple ==
    LET years == Len(projections)
        final_ebitda == projections[Len(projections)].ebitda
        exit_ev == (final_ebitda * entry_multiple) \div MultDen
        exit_debt == SumBalances(rm.debt_balances)
        exit_equity == exit_ev - exit_debt
        moic == IF initial_equity > 0 THEN Frac(exit_equity, initial_equity)
                ELSE <<0, 1>>
    IN  [entry_equity |-> initial_equity, exit_equity |-> exit_equity,
         moic |-> moic, irr |-> Irr(moic, years),
         exit_enterprise_value |-> exit_ev, exit_net_debt |-> exit_debt,
         total_debt_paydown |-> rm.total_paydown,
         yearly_results |-> rm.yearly_results]

\* Lines 315-334: the LBOResult of a run over a non-empty projection list.
LBOResult ==
    LET years == Len(projections)
        final_ebitda == projections[Len(projections)].ebitda
        exit_ev == final_ebitda * exit_multiple
        exit_debt == SumBalances(rm.debt_balances)
        exit_equity == exit_ev - exit_debt
        moic == IF initial_equity > 0 THEN Frac(exit_equity, initial_equity)
                ELSE <<0, 1>>
    IN  [entry_equity |-> initial_equity, exit_equity |-> exit_equity,
         moic |-> moic, irr |-> Irr(moic, years),
         exit_enterprise_value |-> exit_ev, exit_net_debt |-> exit_debt,
         total_debt_paydown |-> rm.total_paydown,
         yearly_results |-> rm.yearly_results]

\* Lines 315-334: the exit calculation and the return; self.projections[-1]
\* raises IndexError on an empty list.
ExitCalculation ==
    /\ pc = "rm_exit"
    /\ IF Len(projections) = 0
       THEN RunModelRaises("IndexError")
       ELSE LET r == [returned |-> TRUE,
                      args |-> [max_iterations |-> rm.max_iterations,
                                convergence_threshold |-> rm.convergence_threshold],
                      model |-> Snapshot,
                      value |-> LBOResult]
            IN  /\ debt_tranches' = TranchesAfterRun(rm.debt_balances)
                /\ rm' = NoRun
                /\ IF rm.caller = "user"
                   THEN /\ result' = r
                        /\ pc' = "idle"
                        /\ calls' = calls + 1
                        /\ last' = [last EXCEPT !.outcome = "returned"]
                        /\ sv' = sv
                        /\ sa' = sa
                   ELSE IF rm.caller = "sensitivity"
                   THEN /\ sa' = [sa EXCEPT !.cell = [nan |-> FALSE,
                                                      irr |-> r.value.irr]]
                        /\ pc' = "sa_finally"
                        /\ UNCHANGED <<result, calls, last, sv>>
                   ELSE /\ sa' = sa
                        /\ sv' = [sv EXCEPT !.result = r,
                                            !.irrs = Append(@, r.value.irr),
                                            !.mids = Append(@, sv.mid),
                                            !.exit_equity = r.value.exit_equity]
                        /\ pc' = "sv_compare"
                        /\ UNCHANGED <<result, calls, last>>
                /\ UNCHANGED <<built, entry_ebitda, entry_multiple, projections,
                               exit_multiple, transaction_fees_pct,
                               financing_fees_pct, prev_result, sau, balanced, solved, pre>>
    /\ UNCHANGED other
    /\ UNCHANGED beta

\* ---------------------------------------------------------- Sources & Uses

\* Lines 178-191: sources_and_uses().
sources_and_uses ==
    LET term_loan == SeqSum([i \in 1..Len(debt_tranches) |->
                        IF ~debt_tranches[i].is_revolver
                        THEN debt_tranches[i].amount ELSE 0])
        revolver == SeqSum([i \in 1..Len(debt_tranches) |->
                        IF debt_tranches[i].is_revolver
                        THEN debt_tranches[i].amount ELSE 0])
    IN  SourcesAndUses(term_loan, revolver, 0, initial_equity, 0,
                       purchase_price, 0, transaction_fees, financing_fees)

\* Tables a caller builds field by field, in currency units.
MadeTables ==
    { SourcesAndUses(6, 0, 0, 5, 0, 9, 0, 1, 1),
      SourcesAndUses(6, 0, 0, 4, 0, 9, 0, 1, 1),
      SourcesAndUses(6, 1, 0, 5, 1, 9, 0, 1, 1),
      SourcesAndUses(6, 0, 0, 2, 0, 9, 0, 1, 1) }

\* The tolerances is_balanced is called with; the first is its default.
Tolerances == {<<1, 100>>, <<1, 1>>, <<2, 1>>, <<3, 1>>}

ScaleTable(s, u) == [f \in DOMAIN s |-> s[f] * u]

\* The caller calls sources_and_uses().
CallSourcesAndUses ==
    /\ pc = "idle"
    /\ Joined
    /\ built = ByConstructor
    /\ calls < MaxCalls
    /\ sau' = [made |-> TRUE, computed |-> TRUE, table |-> sources_and_uses]
    /\ last' = [call |-> "sources_and_uses", outcome |-> "returned",
                error |-> "none"]
    /\ calls' = calls + 1
    /\ pre' = Snapshot
    /\ result' = NoResult
    /\ prev_result' = NoResult
    /\ balanced' = NoBalanced
    /\ solved' = NoResult
    /\ UNCHANGED <<modelVars, pc, rm, sv>>
    /\ UNCHANGED other
    /\ sa' = NoSens
    /\ UNCHANGED beta

\* The caller constructs a SourcesAndUses of its own.
MakeSourcesAndUses ==
    /\ pc = "idle"
    /\ Joined
    /\ built = ByConstructor
    /\ calls < MaxCalls
    /\ \E s \in MadeTables :
          sau' = [made |-> TRUE, computed |-> FALSE,
                  table |-> ScaleTable(s, Unit(Len(projections)))]
    /\ last' = [call |-> "SourcesAndUses", outcome |-> "returned",
                error |-> "none"]
    /\ calls' = calls + 1
    /\ pre' = Snapshot
    /\ result' = NoResult
    /\ prev_result' = NoResult
    /\ balanced' = NoBalanced
    /\ solved' = NoResult
    /\ UNCHANGED <<modelVars, pc, rm, sv>>
    /\ UNCHANGED other
    /\ sa' = NoSens
    /\ UNCHANGED beta

\* The caller calls is_balanced(tolerance) on the table at hand.
CallIsBalanced ==
    /\ pc = "idle"
    /\ Joined
    /\ calls < MaxCalls
    /\ sau.made
    /\ \E tolerance \in Tolerances :
          balanced' = [returned |-> TRUE, tolerance |-> tolerance,
                       value |-> is_balanced(sau.table, tolerance,
                                             Unit(Len(projections)))]
    /\ last' = [call |-> "is_balanced", outcome |-> "returned", error |-> "none"]
    /\ calls' = calls + 1
    /\ pre' = Snapshot
    /\ UNCHANGED <<modelVars, pc, rm, result, prev_result, sv, sau, solved>>
    /\ UNCHANGED other
    /\ sa' = NoSens
    /\ UNCHANGED beta

\* ------------------------------------------------- solve_for_entry_multiple

\* The arguments the solver is called with: target_irr and tolerance are
\* fractions, min_multiple and max_multiple whole numbers.
SolveArgs ==
    { [target_irr |-> <<1, 2>>, min_multiple |-> 1, max_multiple |-> 7,
       tolerance |-> <<1, 4>>],
      [target_irr |-> <<1, 2>>, min_multiple |-> 1, max_multiple |-> 5,
       tolerance |-> <<1, 4>>],
      [target_irr |-> <<4, 1>>, min_multiple |-> 1, max_multiple |-> 5,
       tolerance |-> <<1, 8>>] }

\* abs(irr - target_irr) < tolerance
WithinTolerance(irr, target_irr, tolerance) ==
    /\ IrrGreater(irr, FracSub(target_irr, tolerance))
    /\ IrrLess(irr, FracAdd(target_irr, tolerance))

\* Line 367: t.amount * scale / (self.entry_multiple / original_multiple),
\* with scale = mid / original_multiple.
Rescale(amount, mid, original_multiple) ==
    LET scale == Frac(mid, original_multiple)
        divisor == Frac(entry_multiple', original_multiple)
        ratio == Frac(scale[1] * divisor[2], scale[2] * divisor[1])
    IN  (amount * ratio[1]) \div ratio[2]

\* What the solver returns, with what the call was given and did: found is
\* FALSE for None; irrs are the IRRs of its trials, in order, and exit_equity
\* the exit equity of the last one.
SolverReturn(found, multiple) ==
    [returned |-> TRUE, found |-> found, multiple |-> multiple,
     target_irr |-> sv.target_irr, tolerance |-> sv.tolerance,
     min_multiple |-> sv.min_multiple, max_multiple |-> sv.max_multiple,
     trials |-> sv.trials, irrs |-> sv.irrs, mids |-> sv.mids,
     exit_equity |-> sv.exit_equity]

\* Line 373: return mid.
FoundResult == SolverReturn(TRUE, sv.mid)

\* The closest guess returned in place of None.
ExhaustedBestEffort == SolverReturn(TRUE, sv.mid)

\* Line 381: return None.
ExhaustedResult == SolverReturn(FALSE, 0)

\* The solver ends, by return or by an exception passing through it.
SolveEnds(outcome, error, ret) ==
    /\ pc' = "idle"
    /\ sv' = NoSolve
    /\ rm' = NoRun
    /\ solved' = ret
    /\ last' = [call |-> "solve_for_entry_multiple", outcome |-> outcome,
                error |-> error]
    /\ calls' = calls + 1

\* The caller calls solve_for_entry_multiple(target_irr, min_multiple,
\* max_multiple, tolerance): lines 355-357.
CallSolve ==
    /\ pc = "idle"
    /\ Joined
    /\ built = ByConstructor
    /\ calls < MaxCalls
    /\ \E args \in SolveArgs :
          sv' = [NoSolve EXCEPT !.target_irr = args.target_irr,
                                !.tolerance = args.tolerance,
                                !.original_multiple = entry_multiple,
                                !.min_multiple = args.min_multiple * MultDen,
                                !.max_multiple = args.max_multiple * MultDen,
                                !.low = args.min_multiple * MultDen,
                                !.high = args.max_multiple * MultDen]
    /\ pc' = "sv_trial"
    /\ solved' = NoResult
    /\ result' = NoResult
    /\ prev_result' = NoResult
    /\ last' = [call |-> "solve_for_entry_multiple", outcome |-> "running",
                error |-> "none"]
    /\ pre' = Snapshot
    /\ sau' = NoTable
    /\ balanced' = NoBalanced
    /\ UNCHANGED <<modelVars, rm, calls>>
    /\ UNCHANGED other
    /\ sa' = NoSens
    /\ UNCHANGED beta

\* Lines 359-369: one pass of the loop up to the call of run_model(), or,
\* the iterations used up, lines 380-381.
SolverTrial ==
    /\ pc = "sv_trial"
    /\ IF sv.iteration >= SolverMaxIterations
       THEN /\ entry_multiple' = sv.original_multiple
            /\ SolveEnds("returned", "none", ExhaustedResult)
            /\ UNCHANGED <<built, entry_ebitda, debt_tranches, projections,
                           exit_multiple, transaction_fees_pct,
                           financing_fees_pct, result, prev_result, sau,
                           balanced, pre>>
       ELSE LET mid == (sv.low + sv.high) \div 2 IN
            /\ entry_multiple' = mid
            /\ IF sv.original_multiple = 0
                  \/ (mid = 0 /\ Len(debt_tranches) > 0)
               THEN /\ SolveEnds("raised", "ZeroDivisionError", NoResult)
                    /\ UNCHANGED <<built, entry_ebitda, debt_tranches, projections,
                                   exit_multiple, transaction_fees_pct,
                                   financing_fees_pct, result, prev_result, sau,
                                   balanced, pre>>
               ELSE /\ debt_tranches' =
                          [i \in 1..Len(debt_tranches) |->
                              [debt_tranches[i] EXCEPT !.amount =
                                  Rescale(@, mid, sv.original_multiple)]]
                    /\ sv' = [sv EXCEPT !.mid = mid, !.trials = @ + 1]
                    /\ pc' = "sv_run"
                    /\ UNCHANGED <<built, entry_ebitda, projections, exit_multiple,
                                   transaction_fees_pct, financing_fees_pct, rm,
                                   result, prev_result, sau, balanced, last,
                                   calls, solved, pre>>
    /\ UNCHANGED other
    /\ UNCHANGED sa
    /\ UNCHANGED beta

\* Line 369: result = self.run_model(), with the default arguments.
SolverRunModel ==
    /\ pc = "sv_run"
    /\ rm' = RunModelFrame("solver", DefaultRunArgs)
    /\ pc' = LoopHead(1)
    /\ UNCHANGED <<modelVars, result, prev_result, sv, sau, balanced, last,
                   calls, solved, pre>>
    /\ UNCHANGED other
    /\ UNCHANGED sa
    /\ UNCHANGED beta

\* Lines 371-378: the trial's IRR against the target.
SolverCompare ==
    /\ pc = "sv_compare"
    /\ LET irr == sv.result.value.irr IN
       IF WithinTolerance(irr, sv.target_irr, sv.tolerance)
       THEN /\ entry_multiple' = sv.original_multiple
            /\ SolveEnds("returned", "none", FoundResult)
            /\ UNCHANGED <<built, entry_ebitda, debt_tranches, projections,
                           exit_multiple, transaction_fees_pct,
                           financing_fees_pct, result, prev_result, sau,
                           balanced, pre>>
       ELSE /\ sv' = [sv EXCEPT
                        !.low = IF IrrGreater(irr, sv.target_irr)
                                THEN sv.mid ELSE @,
                        !.high = IF IrrGreater(irr, sv.target_irr)
                                 THEN @ ELSE sv.mid,
                        !.iteration = @ + 1]
            /\ pc' = "sv_trial"
            /\ UNCHANGED <<modelVars, rm, result, prev_result, sau, balanced,
                           last, calls, solved, pre>>
    /\ UNCHANGED other
    /\ UNCHANGED sa
    /\ UNCHANGED beta

\* The caller adopts the multiple the solver returned: model.entry_multiple = m.
SetEntryMultiple ==
    /\ pc = "idle"
    /\ Joined
    /\ last.call = "solve_for_entry_multiple"
    /\ solved.returned
    /\ solved.found
    /\ entry_multiple' = solved.multiple
    /\ solved' = solved
    /\ last' = [call |-> "set_entry_multiple", outcome |-> "returned",
                error |-> "none"]
    /\ UNCHANGED <<built, entry_ebitda, debt_tranches, projections, exit_multiple,
                   transaction_fees_pct, financing_fees_pct, pc, rm, result,
                   prev_result, sv, sau, balanced, calls, pre>>
    /\ UNCHANGED other
    /\ sa' = NoSens
    /\ UNCHANGED beta

\* The caller changes the exit assumption between two runs:
\* model.exit_multiple = x, the dataclass field of line 147.
SetExitMultiple ==
    /\ pc = "idle"
    /\ Joined
    /\ calls < MaxCalls
    /\ built = ByConstructor
    /\ last.call = "run_model"
    /\ last.outcome = "returned"
    /\ \E x \in ExitMultiples \ {exit_multiple} : exit_multiple' = x
    /\ last' = [call |-> "set_exit_multiple", outcome |-> "returned",
                error |-> "none"]
    /\ UNCHANGED <<built, entry_ebitda, entry_multiple, debt_tranches, projections,
                   transaction_fees_pct, financing_fees_pct, pc, rm, result,
                   prev_result, sv, sau, balanced, calls, solved, pre, other>>
    /\ sa' = NoSens
    /\ UNCHANGED beta

\* ------------------------------------------- two invocations of run_model

RunSteps == {"rm_interest", "rm_amort", "rm_sweep", "rm_revolver", "rm_exit"}

\* An invocation put aside while the other one runs.
Suspended(at, frame, res, mixed) ==
    [live |-> TRUE, pc |-> at, rm |-> frame, result |-> res, mixed |-> mixed]

\* The frame an invocation resumes with, its balances those the invocation
\* that ran meanwhile has left.
ResumedFrameSharingBalances(o) ==
    IF rm.debt_balances = << >> THEN o.rm
    ELSE [o.rm EXCEPT !.debt_balances = rm.debt_balances]

\* Lines 231-232: debt_balances and original_amounts are dictionaries local to
\* the call, so an invocation resumes with the frame it was suspended with.
ResumedFrame(o) == o.rm

\* While the caller's second run_model() is in progress, another thread calls
\* run_model() with the same arguments on the same instance; it starts suspended.
SpawnRunModel ==
    /\ pc \in RunSteps
    /\ rm.caller = "user"
    /\ ~other.live
    /\ calls = 1
    /\ built = ByConstructor
    /\ rm.max_iterations = DefaultRunArgs.max_iterations
    /\ rm.convergence_threshold = DefaultRunArgs.convergence_threshold
    /\ prev_result.returned
    /\ prev_result.args = DefaultRunArgs
    /\ prev_result.model = Snapshot
    /\ other' = Suspended(LoopHead(1), RunModelFrame("user", DefaultRunArgs),
                          NoResult, FALSE)
    /\ UNCHANGED <<modelVars, pc, rm, result, prev_result, sv, sau, balanced,
                   last, calls, solved, pre>>
    /\ UNCHANGED sa
    /\ UNCHANGED beta

\* The interpreter switches threads: the running invocation is suspended, or has
\* ended, and the suspended one resumes. "mixed" records that both were at work
\* on balances that differ.
Switch ==
    /\ other.live
    /\ other.pc \in RunSteps
    /\ pc \in RunSteps \/ (pc = "idle" /\ last.call = "run_model")
    /\ pc' = other.pc
    /\ rm' = ResumedFrame(other)
    /\ result' = other.result
    /\ other' = Suspended(pc, rm, result,
                          \/ other.mixed
                          \/ /\ pc \in RunSteps
                             /\ rm.debt_balances # other.rm.debt_balances)
    /\ UNCHANGED <<modelVars, prev_result, sv, sau, balanced, last, calls,
                   solved, pre>>
    /\ UNCHANGED sa
    /\ UNCHANGED beta

\* ---------------------------------------------------------------- simple_lbo

\* The arguments simple_lbo is called with: entry_ebitda in currency units,
\* multiples, leverage_turns and ebitda_growth whole numbers, interest_rate,
\* capex_pct and tax_rate numerators over RateDen.
SimpleArgs ==
    [entry_ebitda : {1}, entry_multiple : {4}, leverage_turns : {1, 2, 3},
     interest_rate : {0, 1}, exit_multiple : {3, 5}, hold_years : {0, 1, 2},
     ebitda_growth : {0, 1}, capex_pct : {0, 1}, tax_rate : {0, 1}]

\* Ticks per currency unit of a model simple_lbo builds over n years: fine
\* enough for the 1% amortization and the 10% depreciation.
SimpleUnit(n) == Unit(n) * 100

\* The projections with year t at entry_ebitda * (1 + ebitda_growth)^(t - 1).
simple_lbo_growth_from_entry(a) ==
    LET u == SimpleUnit(a.hold_years)
        debt_amount == a.entry_ebitda * u * a.leverage_turns
        debt == DebtTranche("Unitranche", debt_amount, a.interest_rate,
                            <<1, 100>>, FALSE, 0, 1)
        ebitda(year) == a.entry_ebitda * u * Pow(1 + a.ebitda_growth, year - 1)
    IN  [entry_ebitda |-> a.entry_ebitda * u,
         entry_multiple |-> a.entry_multiple * MultDen,
         debt_tranches |-> <<debt>>,
         projections |->
             [year \in 1..a.hold_years |->
                 LBOProjection(year, ebitda(year),
                               (ebitda(year) * a.capex_pct) \div RateDen, 0,
                               a.tax_rate, ebitda(year) \div 10)],
         exit_multiple |-> a.exit_multiple,
         transaction_fees_pct |-> 1,
         financing_fees_pct |-> 1]

\* The debt at one turn of EBITDA, whatever leverage_turns is.
simple_lbo_one_turn(a) ==
    LET u == SimpleUnit(a.hold_years)
        debt_amount == a.entry_ebitda * u
        debt == DebtTranche("Unitranche", debt_amount, a.interest_rate,
                            <<1, 100>>, FALSE, 0, 1)
        ebitda(year) == a.entry_ebitda * u * Pow(1 + a.ebitda_growth, year)
    IN  [entry_ebitda |-> a.entry_ebitda * u,
         entry_multiple |-> a.entry_multiple * MultDen,
         debt_tranches |-> <<debt>>,
         projections |->
             [year \in 1..a.hold_years |->
                 LBOProjection(year, ebitda(year),
                               (ebitda(year) * a.capex_pct) \div RateDen, 0,
                               a.tax_rate, ebitda(year) \div 10)],
         exit_multiple |-> a.exit_multiple,
         transaction_fees_pct |-> 1,
         financing_fees_pct |-> 1]

\* Lines 408-435: one "Unitranche" of entry_ebitda * leverage_turns at 1%
\* amortization, the other tranche fields at their defaults; one projection per
\* year of range(1, hold_years + 1); the fee percentages at their default 0.02.
simple_lbo(a) ==
    LET u == SimpleUnit(a.hold_years)
        debt_amount == a.entry_ebitda * u * a.leverage_turns
        debt == DebtTranche("Unitranche", debt_amount, a.interest_rate,
                            <<1, 100>>, FALSE, 0, 1)
        ebitda(year) == a.entry_ebitda * u * Pow(1 + a.ebitda_growth, year)
    IN  [entry_ebitda |-> a.entry_ebitda * u,
         entry_multiple |-> a.entry_multiple * MultDen,
         debt_tranches |-> <<debt>>,
         projections |->
             [year \in 1..a.hold_years |->
                 LBOProjection(year, ebitda(year),
                               (ebitda(year) * a.capex_pct) \div RateDen, 0,
                               a.tax_rate, ebitda(year) \div 10)],
         exit_multiple |-> a.exit_multiple,
         transaction_fees_pct |-> 1,
         financing_fees_pct |-> 1]

\* The caller builds a model with LBOModel.simple_lbo(...): a new instance, on
\* which no call has been made. A model built after a run of a simple model
\* differs from it in leverage_turns only.
CallSimpleLbo ==
    /\ pc = "idle"
    /\ Joined
    /\ \E a \in SimpleArgs :
          /\ \/ calls = 0 /\ last.call = "none"
             \/ /\ built.by = "simple_lbo"
                /\ last.call = "run_model"
                /\ last.outcome = "returned"
                /\ a # built.args
                /\ [a EXCEPT !.leverage_turns = built.args.leverage_turns]
                       = built.args
          /\ LET m == simple_lbo(a) IN
             /\ entry_ebitda' = m.entry_ebitda
             /\ entry_multiple' = m.entry_multiple
             /\ debt_tranches' = m.debt_tranches
             /\ projections' = m.projections
             /\ exit_multiple' = m.exit_multiple
             /\ transaction_fees_pct' = m.transaction_fees_pct
             /\ financing_fees_pct' = m.financing_fees_pct
          /\ built' = [by |-> "simple_lbo", args |-> a]
    /\ pre' = Snapshot'
    /\ calls' = 0
    /\ last' = [call |-> "simple_lbo", outcome |-> "returned", error |-> "none"]
    /\ prev_result' = NoResult
    /\ UNCHANGED <<pc, rm, result, sv, sau, balanced, solved, other>>
    /\ sa' = NoSens
    /\ UNCHANGED beta

\* ------------------------------------------------------ the specifications

\* ------------------------------------------- SensitivityAnalysis on the LBO

\* The grids lbo_sensitivity is called with: entry multiples over MultDen, exit
\* multiples whole.
SensGrids ==
    { [entry_multiples |-> <<3 * MultDen, 5 * MultDen>>,
       exit_multiples |-> <<1, 4>>] }

\* sensitivity.py lines 274-275 and 288-296: lbo_sensitivity reads the base
\* multiples and enters create_table's loops at the first cell.
CallLboSensitivity ==
    /\ pc = "idle"
    /\ Joined
    /\ built = ByConstructor
    /\ calls < MaxCalls
    /\ \E g \in SensGrids :
          sa' = [NoSens EXCEPT !.at = "running",
                               !.base_entry = entry_multiple,
                               !.base_exit = exit_multiple,
                               !.entry_multiples = g.entry_multiples,
                               !.exit_multiples = g.exit_multiples,
                               !.row = 1, !.col = 1]
    /\ pc' = "sa_cell"
    /\ last' = [call |-> "lbo_sensitivity", outcome |-> "running",
                error |-> "none"]
    /\ pre' = Snapshot
    /\ result' = NoResult
    /\ prev_result' = NoResult
    /\ sau' = NoTable
    /\ balanced' = NoBalanced
    /\ solved' = NoResult
    /\ UNCHANGED <<modelVars, rm, sv, calls, other>>
    /\ UNCHANGED beta

\* sensitivity.py lines 277-283: calc_irr sets both multiples on the model and
\* calls run_model() with its defaults.
SensCalcIrr ==
    /\ pc = "sa_cell"
    /\ entry_multiple' = sa.entry_multiples[sa.row]
    /\ exit_multiple' = sa.exit_multiples[sa.col]
    /\ rm' = RunModelFrame("sensitivity", DefaultRunArgs)
    /\ pc' = LoopHead(1)
    /\ UNCHANGED <<built, entry_ebitda, debt_tranches, projections,
                   transaction_fees_pct, financing_fees_pct, result, prev_result,
                   sv, sau, balanced, last, calls, solved, pre, other, sa>>
    /\ UNCHANGED beta

\* The multiples calc_irr leaves on the model with no finally clause: the
\* cell's own when run_model() raised.
MultiplesRestoredOnReturnOnly(base_entry, base_exit, raised) ==
    IF raised THEN <<entry_multiple, exit_multiple>> ELSE <<base_entry, base_exit>>

\* sensitivity.py lines 284-286: the finally clause of calc_irr.
MultiplesRestored(base_entry, base_exit, raised) == <<base_entry, base_exit>>

\* The cell after (row, col) in create_table's nested loops.
NextCell(row, col, cols) ==
    IF col < cols THEN <<row, col + 1>> ELSE <<row + 1, 1>>

\* sensitivity.py lines 284-286 and 178-187: calc_irr's finally restores the
\* multiples; create_table stores the cell, NaN if the calculation raised, and
\* goes on to the next cell, or returns the table after the last.
SensStoreCell ==
    /\ pc = "sa_finally"
    /\ LET m == MultiplesRestored(sa.base_entry, sa.base_exit, sa.cell.nan)
           n == NextCell(sa.row, sa.col, Len(sa.exit_multiples))
           done == n[1] > Len(sa.entry_multiples)
       IN  /\ entry_multiple' = m[1]
           /\ exit_multiple' = m[2]
           /\ sa' = [sa EXCEPT !.results = Append(@, sa.cell),
                               !.row = n[1], !.col = n[2],
                               !.cell = NaN,
                               !.at = IF done THEN "returned" ELSE @]
           /\ pc' = IF done THEN "idle" ELSE "sa_cell"
           /\ calls' = IF done THEN calls + 1 ELSE calls
           /\ last' = IF done THEN [last EXCEPT !.outcome = "returned"] ELSE last
    /\ UNCHANGED <<built, entry_ebitda, debt_tranches, projections,
                   transaction_fees_pct, financing_fees_pct, rm, result,
                   prev_result, sv, sau, balanced, solved, pre, other>>
    /\ UNCHANGED beta

Next ==
    \/ CallRunModel
    \/ ResolveCircularity
    \/ MandatoryAmortization
    \/ CashSweep
    \/ HandleRevolver
    \/ ExitCalculation
    \/ CallSourcesAndUses
    \/ MakeSourcesAndUses
    \/ CallIsBalanced
    \/ CallSolve
    \/ SolverTrial
    \/ SolverRunModel
    \/ SolverCompare
    \/ SetEntryMultiple
    \/ SetExitMultiple
    \/ CallSimpleLbo
    \/ SpawnRunModel
    \/ Switch
    \/ CallLboSensitivity
    \/ SensCalcIrr
    \/ SensStoreCell

Spec == Init /\ [][Next]_vars

\* ------------------------------------------------ wacc.py: BetaCalculator

\* A call that raised, and a call that returned.
Raised(error, message) ==
    [error |-> error, message |-> message, value |-> <<0, 1>>]

Returned(value) == [error |-> "none", message |-> "", value |-> value]

\* 1 + (1 - tax_rate) * de_ratio, tax_rate a numerator over RateDen.
LeverageFactor(debt, equity, tax_rate) ==
    FracAdd(<<1, 1>>, FracMul(Frac(RateDen - tax_rate, RateDen), Frac(debt, equity)))

\* wacc.py lines 56-74: unlever; betas are fractions.
unlever(levered_beta, debt, equity, tax_rate) ==
    IF equity = 0 THEN Raised("ValueError", "Equity cannot be zero")
    ELSE LET f == LeverageFactor(debt, equity, tax_rate) IN
         IF f[1] = 0 THEN Raised("ZeroDivisionError", "float division by zero")
         ELSE Returned(FracDiv(levered_beta, f))

\* wacc.py lines 76-94: relever.
relever(unlevered_beta, debt, equity, tax_rate) ==
    IF equity = 0 THEN Raised("ValueError", "Equity cannot be zero")
    ELSE Returned(FracMul(unlevered_beta, LeverageFactor(debt, equity, tax_rate)))

\* wacc.py lines 120-123: the loop unlevering peer i and those after it; the
\* first call that raises ends the loop.
RECURSIVE UnleverPeers(_, _, _, _, _, _)
UnleverPeers(i, peer_betas, peer_debts, peer_equities, tax_rate, unlevered_betas) ==
    IF i > Len(peer_betas) THEN [error |-> "none", message |-> "",
                                 betas |-> unlevered_betas]
    ELSE LET u == unlever(peer_betas[i], peer_debts[i], peer_equities[i], tax_rate)
         IN  IF u.error # "none"
             THEN [error |-> u.error, message |-> u.message, betas |-> << >>]
             ELSE UnleverPeers(i + 1, peer_betas, peer_debts, peer_equities,
                               tax_rate, Append(unlevered_betas, u.value))

\* x put into the ascending sequence s.
RECURSIVE InsertAscending(_, _)
InsertAscending(x, s) ==
    IF s = << >> THEN <<x>>
    ELSE IF FracLess(x, Head(s)) THEN <<x>> \o s
    ELSE <<Head(s)>> \o InsertAscending(x, Tail(s))

\* sorted(unlevered_betas), line 126.
RECURSIVE sorted_betas(_)
sorted_betas(s) ==
    IF s = << >> THEN << >> ELSE InsertAscending(Head(s), sorted_betas(Tail(s)))

\* wacc.py lines 96-134: from_peers.  Indexing the empty sorted list (line 129)
\* raises IndexError.
from_peers(peer_betas, peer_debts, peer_equities, tax_rate, target_debt, target_equity) ==
    IF Len(peer_betas) # Len(peer_debts) \/ Len(peer_betas) # Len(peer_equities)
    THEN Raised("ValueError", "All peer lists must have same length")
    ELSE LET u == UnleverPeers(1, peer_betas, peer_debts, peer_equities,
                               tax_rate, << >>)
         IN  IF u.error # "none" THEN Raised(u.error, u.message)
             ELSE LET s == sorted_betas(u.betas)
                      n == Len(s)
                  IN  IF n = 0
                      THEN Raised("IndexError", "list index out of range")
                      ELSE LET median_unlevered ==
                                   IF n % 2 = 0
                                   THEN FracDiv(FracAdd(s[n \div 2], s[n \div 2 + 1]),
                                                <<2, 1>>)
                                   ELSE s[n \div 2 + 1]
                           IN  relever(median_unlevered, target_debt,
                                       target_equity, tax_rate)

\* The arguments the calculator is called with: betas as fractions, debt and
\* equity in currency units, tax rates as numerators over RateDen.
Betas == {<<1, 1>>, <<3, 2>>}
Debts == {-1, 0, 1}
Equities == {0, 1, 2}
TaxRates == {0, 1}

\* Peer groups: <<peer_betas, peer_debts, peer_equities>>.
PeerGroups ==
    { << << >>, << >>, << >> >>,
      << <<<<1, 1>>>>, <<1>>, <<2>> >>,
      << <<<<1, 1>>, <<3, 2>>>>, <<1, 0>>, <<2, 1>> >>,
      << <<<<1, 1>>, <<3, 2>>>>, <<1, 1>>, <<2, 0>> >>,
      << <<<<1, 1>>, <<3, 2>>>>, <<-1, 1>>, <<1, 0>> >>,
      << <<<<1, 1>>, <<3, 2>>>>, <<1, 1>>, <<2>> >>,
      << <<<<1, 1>>, <<3, 2>>>>, <<1>>, <<2, 0>> >>,
      << <<<<2, 1>>, <<1, 1>>, <<3, 2>>>>, <<1, 1, 0>>, <<1, 2, 1>> >> }

BetaCall(call, args, outcome) ==
    [call |-> call, args |-> args, error |-> outcome.error,
     message |-> outcome.message, value |-> outcome.value]

CallUnlever ==
    /\ \E b \in Betas, d \in Debts, e \in Equities, t \in TaxRates :
          beta' = BetaCall("unlever",
                           [beta |-> b, debt |-> d, equity |-> e, tax_rate |-> t],
                           unlever(b, d, e, t))
    /\ UNCHANGED lboVars

CallRelever ==
    /\ \E b \in Betas, d \in Debts, e \in Equities, t \in TaxRates :
          beta' = BetaCall("relever",
                           [beta |-> b, debt |-> d, equity |-> e, tax_rate |-> t],
                           relever(b, d, e, t))
    /\ UNCHANGED lboVars

CallFromPeers ==
    /\ \E g \in PeerGroups, t \in TaxRates, d \in Debts, e \in Equities :
          beta' = BetaCall("from_peers",
                           [peer_betas |-> g[1], peer_debts |-> g[2],
                            peer_equities |-> g[3], tax_rate |-> t,
                            target_debt |-> d, target_equity |-> e],
                           from_peers(g[1], g[2], g[3], t, d, e))
    /\ UNCHANGED lboVars

\* No LBOModel at hand: the calculator's methods are static.
BetaInit ==
    /\ entry_ebitda = 0
    /\ entry_multiple = 0
    /\ debt_tranches = << >>
    /\ projections = << >>
    /\ exit_multiple = 0
    /\ transaction_fees_pct = 0
    /\ financing_fees_pct = 0
    /\ pc = "idle"
    /\ rm = NoRun
    /\ result = NoResult
    /\ prev_result = NoResult
    /\ sv = NoSolve
    /\ sau = NoTable
    /\ balanced = NoBalanced
    /\ last = [call |-> "none", outcome |-> "none", error |-> "none"]
    /\ calls = 0
    /\ solved = NoResult
    /\ built = ByConstructor
    /\ pre = Snapshot
    /\ other = NoOther
    /\ sa = NoSens
    /\ beta = NoBeta

BetaNext ==
    \/ CallUnlever
    \/ CallRelever
    \/ CallFromPeers

BetaSpec == BetaInit /\ [][BetaNext]_vars

\* ------------------------------------------------------------- the claims

InRunModel == pc \in {"rm_interest", "rm_amort", "rm_sweep", "rm_revolver", "rm_exit"}

\* The model's tranches are valid: amount >= 0, amortization_rate in [0, 1],
\* and a revolver's amount within its commitment.
ValidTranches ==
    \A i \in 1..Len(debt_tranches) :
        LET t == debt_tranches[i] IN
        /\ t.amount >= 0
        /\ t.amortization_rate[1] \in 0..t.amortization_rate[2]
        /\ t.is_revolver => t.amount <= t.revolver_commitment

Revolvers == {i \in 1..Len(debt_tranches) : debt_tranches[i].is_revolver}

\* C1: in every state of a run_model() call, after each year's amortization,
\* sweep and revolver step, every tranche's balance is >= 0, for valid tranches.
C1_BalancesNonNegative ==
    InRunModel /\ ValidTranches =>
        \A n \in DOMAIN rm.debt_balances : rm.debt_balances[n] >= 0

\* A run over valid tranches has ended its years with a tranche paid down to 0,
\* a payment having met its cap.
C1_Witness ==
    /\ pc = "rm_exit"
    /\ ValidTranches
    /\ Len(rm.yearly_results) >= 2
    /\ \E n \in DOMAIN rm.debt_balances :
          rm.debt_balances[n] = 0 /\ rm.original_amounts[n] > 0

\* run_model() has returned to the caller.
RunReturned ==
    pc = "idle" /\ last.call = "run_model" /\ last.outcome = "returned"
        /\ result.returned

\* C2 as stated: for every model, total_debt_paydown = total_initial_debt -
\* exit_net_debt, whatever the number of revolver tranches.
C2_Original ==
    RunReturned =>
        result.value.total_debt_paydown
            = total_initial_debt - result.value.exit_net_debt

\* C2 amended: for every model with at most one revolver tranche,
\* total_debt_paydown = total_initial_debt - exit_net_debt.
C2_PaydownIsDebtChange ==
    RunReturned /\ Cardinality(Revolvers) <= 1 =>
        result.value.total_debt_paydown
            = total_initial_debt - result.value.exit_net_debt

\* A run of a model with one revolver has returned, a year of it a draw.
C2_Witness ==
    /\ RunReturned
    /\ Cardinality(Revolvers) = 1
    /\ \E y \in 1..Len(result.value.yearly_results) :
          result.value.yearly_results[y].revolver_change > 0

\* The caller has not changed the model between the two runs: it neither
\* assigned exit_multiple nor built another model.
SameAssumptions(a, b) == a.exit_multiple = b.exit_multiple /\ a.built = b.built

\* C3: two run_model() calls in a row with the same arguments on the unmodified
\* model return results equal in every field.
C3_RunTwiceSameResult ==
    /\ RunReturned
    /\ prev_result.returned
    /\ prev_result.args = result.args
    /\ SameAssumptions(prev_result.model, result.model)
    => result.value = prev_result.value

\* Two runs in a row have returned, and debt was paid down in them.
C3_Witness ==
    /\ RunReturned
    /\ prev_result.returned
    /\ prev_result.args = result.args
    /\ SameAssumptions(prev_result.model, result.model)
    /\ result.value.total_debt_paydown > 0

SweptAfter == pc = "rm_revolver"

\* C4: after a year's sweep, a non-revolver tranche has received a sweep payment
\* only if every non-revolver tranche of strictly lower priority number is at 0.
C4_SweepInPriorityOrder ==
    SweptAfter =>
        \A i, j \in 1..Len(debt_tranches) :
            LET t == debt_tranches[i]
                u == debt_tranches[j]
            IN  /\ ~t.is_revolver
                /\ ~u.is_revolver
                /\ rm.sweep_paid[t.name] > 0
                /\ u.cash_sweep_priority < t.cash_sweep_priority
                => rm.debt_balances[u.name] = 0

\* A sweep has paid a tranche that ranks behind another one, which it retired.
C4_Witness ==
    /\ SweptAfter
    /\ \E i, j \in 1..Len(debt_tranches) :
          /\ ~debt_tranches[i].is_revolver
          /\ ~debt_tranches[j].is_revolver
          /\ debt_tranches[j].cash_sweep_priority
                < debt_tranches[i].cash_sweep_priority
          /\ rm.sweep_paid[debt_tranches[i].name] > 0
          /\ rm.sweep_paid[debt_tranches[j].name] > 0

\* solve_for_entry_multiple has ended, by return or by an exception.
SolveEnded == pc = "idle" /\ last.call = "solve_for_entry_multiple"

SolveReturned == SolveEnded /\ last.outcome = "returned" /\ solved.returned

Amounts(ts) == [i \in 1..Len(ts) |-> ts[i].amount]

\* C5: on every exit path of solve_for_entry_multiple (a multiple found, the
\* iterations used up, a trial run failing) the model's entry_multiple and every
\* tranche's amount are what they were before the call.
C5_SolverRestoresModel ==
    SolveEnded =>
        /\ entry_multiple = pre.entry_multiple
        /\ Amounts(debt_tranches) = Amounts(pre.debt_tranches)

\* The sponsor equity of the model at entry multiple m.
EquityAt(m) ==
    LET price == (entry_ebitda * m) \div MultDen
    IN  price + (price * transaction_fees_pct) \div FeeDen + financing_fees
            - total_initial_debt

\* The IRR of a run of the model at entry multiple m, the run ending with the
\* exit equity x (which no entry multiple changes).
IrrAt(m, x) ==
    Irr(IF EquityAt(m) > 0 THEN Frac(x, EquityAt(m)) ELSE <<0, 1>>,
        Len(projections))

\* Some entry multiple in [min_multiple, max_multiple] yields the target IRR:
\* the IRR is continuous in the multiple where the equity is positive, and is
\* at or above the target at m1 and at or below it at m2 >= m1.
Achievable ==
    \E m1, m2 \in solved.min_multiple..solved.max_multiple :
        /\ m1 <= m2
        /\ EquityAt(m1) > 0
        /\ solved.exit_equity > 0
        /\ ~IrrLess(IrrAt(m1, solved.exit_equity), solved.target_irr)
        /\ ~IrrGreater(IrrAt(m2, solved.exit_equity), solved.target_irr)

\* The multiples strictly inside the interval that the bisection can try
\* within SolverMaxIterations iterations.
Midpoints ==
    {solved.min_multiple + k * (solved.max_multiple - solved.min_multiple) :
        k \in 1..(MultDen - 1)}

\* The solver's resolution suffices: at one of those multiples the IRR is
\* within tolerance of the target.
AchievableAtMidpoint ==
    \E m \in Midpoints :
        LET irr == IrrAt(m, solved.exit_equity) IN
        /\ IrrGreater(irr, FracSub(solved.target_irr, solved.tolerance))
        /\ IrrLess(irr, FracAdd(solved.target_irr, solved.tolerance))

\* C6: when some entry multiple in [min_multiple, max_multiple] yields the target
\* IRR, the solver returns a multiple inside the interval at which the run's IRR
\* is within tolerance of the target.  The cases taken are those the capped
\* bisection has the resolution for.
C6_SolverFindsAchievableTarget ==
    SolveReturned /\ Achievable /\ AchievableAtMidpoint =>
        /\ solved.found
        /\ solved.multiple \in solved.min_multiple..solved.max_multiple
        /\ LET irr == IrrAt(solved.multiple, solved.exit_equity) IN
           /\ IrrGreater(irr, FracSub(solved.target_irr, solved.tolerance))
           /\ IrrLess(irr, FracAdd(solved.target_irr, solved.tolerance))

\* Trial i of the returned solve came within tolerance of the target.
TrialWithin(i) ==
    /\ IrrGreater(solved.irrs[i], FracSub(solved.target_irr, solved.tolerance))
    /\ IrrLess(solved.irrs[i], FracAdd(solved.target_irr, solved.tolerance))

\* C7: the solver runs the simulator at most SolverMaxIterations times and, when
\* no trial came within tolerance of the target, returns None, no multiple.
C7_SolverCapAndNotFound ==
    /\ sv.trials <= SolverMaxIterations
    /\ SolveReturned =>
          /\ solved.trials <= SolverMaxIterations
          /\ Len(solved.irrs) = solved.trials
          /\ (\A i \in 1..solved.trials : ~TrialWithin(i)) => ~solved.found

\* The solver has used up its iterations, and returned None.
C7_Witness ==
    /\ SolveReturned
    /\ ~solved.found
    /\ solved.trials = SolverMaxIterations
    /\ \A i \in 1..solved.trials : ~TrialWithin(i)

\* C8: in each trial with midpoint m the simulator runs with every tranche's
\* amount = original amount x (m / original entry multiple).
C8_TrialRescalesDebt ==
    pc = "sv_run" =>
        \A i \in 1..Len(debt_tranches) :
            debt_tranches[i].amount * sv.original_multiple
                = pre.debt_tranches[i].amount * sv.mid

\* The table at hand is the one sources_and_uses() returned.
TableComputed == sau.made /\ sau.computed

\* C9: the table returned by sources_and_uses() is balanced: total_sources
\* equals total_uses, and sponsor_equity = purchase_price + transaction_fees
\* + financing_fees - total_initial_debt, whatever the tranche mix and also
\* when that plug is zero or negative.
C9_ComputedTableBalances ==
    TableComputed =>
        /\ sau.table.term_loan + sau.table.revolver_draw + sau.table.other_debt
             + sau.table.sponsor_equity + sau.table.rollover_equity
           = sau.table.equity_purchase + sau.table.refinance_debt
             + sau.table.transaction_fees + sau.table.financing_fees
        /\ sau.table.equity_purchase = (entry_ebitda * entry_multiple) \div MultDen
        /\ sau.table.sponsor_equity
           = sau.table.equity_purchase + sau.table.transaction_fees
             + sau.table.financing_fees - SeqSum(Amounts(debt_tranches))

\* A computed table with fees charged and an equity plug below zero.
C9_Witness ==
    /\ TableComputed
    /\ sau.table.sponsor_equity < 0
    /\ sau.table.transaction_fees > 0
    /\ sau.table.financing_fees > 0

\* The absolute difference of the table at hand, and the tolerance of the
\* last is_balanced call, both in ticks times the tolerance's denominator.
TableDifference ==
    Abs((sau.table.term_loan + sau.table.revolver_draw + sau.table.other_debt
         + sau.table.sponsor_equity + sau.table.rollover_equity)
        - (sau.table.equity_purchase + sau.table.refinance_debt
           + sau.table.transaction_fees + sau.table.financing_fees))
      * balanced.tolerance[2]

ToleranceTicks == balanced.tolerance[1] * Unit(Len(projections))

\* C10 as stated: is_balanced(tolerance) returns false exactly when the
\* absolute difference exceeds the tolerance, so true when the two are equal,
\* and it never raises.
C10_Original ==
    /\ last.call = "is_balanced" => last.outcome = "returned"
    /\ balanced.returned =>
          (balanced.value = FALSE <=> TableDifference > ToleranceTicks)

\* C10: is_balanced(tolerance) returns true exactly when the absolute
\* difference of total_sources and total_uses is strictly below the tolerance,
\* so false when it exceeds the tolerance and also when it equals it, and it
\* never raises.
C10_FalseFromTolerance ==
    /\ last.call = "is_balanced" => last.outcome = "returned"
    /\ balanced.returned =>
          (balanced.value = FALSE <=> TableDifference >= ToleranceTicks)

\* is_balanced returned false for an unbalanced table whose difference equals
\* the tolerance.
C10_Witness ==
    /\ balanced.returned
    /\ TableDifference = ToleranceTicks
    /\ TableDifference > 0
    /\ balanced.value = FALSE

\* A run_model() call by the caller has ended, by return or by an exception.
RunEnded == pc = "idle" /\ last.call = "run_model"

\* C11: run_model() on a model with an empty projection list does not fail: it
\* returns a result with an empty ledger and IRR = 0.
C11_EmptyProjectionsReturn ==
    RunEnded /\ Len(projections) = 0 =>
        /\ last.outcome = "returned"
        /\ result.returned
        /\ result.value.yearly_results = << >>
        /\ result.value.irr.zero

\* C12: run_model() returns by the terminal-step rule: exit_equity = final-year
\* EBITDA x exit_multiple - the sum of the final balances; MOIC = exit_equity /
\* entry_equity, or 0 when entry_equity <= 0; IRR is the root with
\* (1 + IRR)^n = MOIC, n the number of projections, when MOIC > 0, and 0 when
\* MOIC <= 0.
C12_TerminalStepRule ==
    RunReturned =>
        LET v == result.value
            n == Len(projections)
        IN  /\ v.exit_enterprise_value = projections[n].ebitda * exit_multiple
            /\ v.exit_net_debt = v.yearly_results[n].ending_debt
            /\ v.exit_equity = v.exit_enterprise_value - v.exit_net_debt
            /\ v.entry_equity
                 = purchase_price + transaction_fees + financing_fees
                     - total_initial_debt
            /\ IF v.entry_equity > 0
               THEN MoicSame(v.moic, <<v.exit_equity, v.entry_equity>>)
               ELSE v.moic[1] = 0
            /\ IF v.moic[1] > 0
               THEN ~v.irr.zero /\ v.irr.years = n /\ v.irr.moic = v.moic
               ELSE v.irr.zero

\* A run has returned a gain over two years or more.
C12_Witness ==
    /\ RunReturned
    /\ Len(projections) >= 2
    /\ result.value.exit_net_debt > 0
    /\ result.value.moic[1] > result.value.moic[2]

\* C20: in each year the inner loop evaluates interest at most max_iterations
\* times, stops at the first evaluation whose change is below the threshold,
\* and at the cap goes on with the last value without raising, whatever
\* max_iterations and convergence_threshold the caller passes.
C20_InnerLoopCapped ==
    /\ pc = "rm_amort" =>
          /\ rm.evals <= rm.max_iterations
          /\ rm.evals < rm.max_iterations =>
                \/ rm.evals = 1 /\ BelowThreshold(rm.total_interest,
                                                  rm.convergence_threshold)
                \/ rm.evals = 2 /\ BelowThreshold(0, rm.convergence_threshold)
          /\ rm.evals >= 2 =>
                ~BelowThreshold(rm.total_interest, rm.convergence_threshold)
          /\ rm.evals >= 3 => ~BelowThreshold(0, rm.convergence_threshold)
    /\ RunEnded /\ last.outcome = "raised" => last.error # "UnboundLocalError"

\* The step of a run that handles the revolvers of the year and closes it.
RevolverStep == pc = "rm_revolver" /\ rm'.year = rm.year + 1 /\ other' = other

\* What a year's revolver logic is to do to a revolver t of balance b: a draw
\* (positive), a repayment (negative) or nothing.
ExpectedRevolverChange(t, b) ==
    IF rm.cash_for_sweep < 0
    THEN Min(-rm.cash_for_sweep, t.revolver_commitment - b)
    ELSE IF rm.cash_for_sweep > 0 /\ rm.sweep_paydown = 0
    THEN -Min(rm.cash_for_sweep, b)
    ELSE 0

LastRevolver == CHOOSE i \in Revolvers : \A j \in Revolvers : j <= i

\* C16 as stated: with more than one revolver, a year's draw or repayment
\* changes the balance of the last revolver of the list alone.
C16_Original ==
    [][RevolverStep /\ Cardinality(Revolvers) > 1 =>
          \A i \in Revolvers \ {LastRevolver} :
              rm'.debt_balances[debt_tranches[i].name]
                  = rm.debt_balances[debt_tranches[i].name]]_vars

\* C16 amended: with more than one revolver, a year's draw or repayment changes
\* the balance of every revolver, each by the whole shortfall or surplus capped
\* at its own headroom or balance; revolver_change records the last one's.
C16_EveryRevolverActs ==
    [][RevolverStep /\ Cardinality(Revolvers) > 1 =>
          /\ \A i \in Revolvers :
                LET t == debt_tranches[i] IN
                rm'.debt_balances[t.name]
                    = rm.debt_balances[t.name]
                        + ExpectedRevolverChange(t, rm.debt_balances[t.name])
          /\ rm'.revolver_change
                = ExpectedRevolverChange(debt_tranches[LastRevolver],
                      rm.debt_balances[debt_tranches[LastRevolver].name])]_vars

\* A year of a run over two revolvers has closed with the balance of a
\* revolver that is not the last one changed.
C16_Witness ==
    /\ InRunModel
    /\ Cardinality(Revolvers) > 1
    /\ Len(rm.yearly_results) = 1
    /\ \E i \in Revolvers \ {LastRevolver} :
          rm.debt_balances[debt_tranches[i].name]
              # rm.original_amounts[debt_tranches[i].name]

\* C17: in each year of a model with one revolver, the revolver draws
\* min(-cash_for_sweep, commitment - balance) when cash_for_sweep < 0, repays
\* min(cash_for_sweep, balance) when cash_for_sweep > 0 and nothing was swept,
\* and is left alone otherwise; revolver_change is the draw, minus the
\* repayment, or 0: never both a draw and a repayment.
C17_OneRevolverDrawOrRepay ==
    [][RevolverStep /\ Cardinality(Revolvers) = 1 =>
          LET t == debt_tranches[LastRevolver]
              change == ExpectedRevolverChange(t, rm.debt_balances[t.name])
          IN  /\ rm'.debt_balances[t.name] = rm.debt_balances[t.name] + change
              /\ rm'.revolver_change = change
              /\ rm'.yearly_results[rm.year].revolver_change = change]_vars

\* A run over one revolver and a term tranche has drawn in one year and, cash
\* positive and the term debt swept in a later year, left the revolver alone.
C17_Witness ==
    /\ InRunModel
    /\ Cardinality(Revolvers) = 1
    /\ \E y, z \in 1..Len(rm.yearly_results) :
          /\ y < z
          /\ rm.yearly_results[y].revolver_change > 0
          /\ rm.yearly_results[z].cash_sweep > 0
          /\ rm.yearly_results[z].revolver_change = 0
          /\ rm.yearly_results[z].ending_debt > 0

\* The ledger rows written so far carry, in order, the year and EBITDA of the
\* projections.
RowsFollowProjections(rows) ==
    \A k \in 1..Len(rows) :
        /\ rows[k].year = projections[k].year
        /\ rows[k].ebitda = projections[k].ebitda

\* C18: run_model() appends one ledger row per projection, in list order, each
\* with that projection's year and EBITDA; later years change no row already
\* appended; the returned ledger has as many rows as there are projections.
C18_LedgerRowPerProjection ==
    /\ [](InRunModel => (/\ Len(rm.yearly_results) = rm.year - 1
                          /\ RowsFollowProjections(rm.yearly_results)))
    /\ [](RunReturned =>
             (/\ Len(result.value.yearly_results) = Len(projections)
              /\ RowsFollowProjections(result.value.yearly_results)))
    /\ [][InRunModel /\ InRunModel' /\ other' = other =>
              \A k \in 1..Len(rm.yearly_results) :
                  rm'.yearly_results[k] = rm.yearly_results[k]]_vars
    /\ [][pc = "rm_exit" /\ result'.returned /\ rm.caller = "user"
              /\ other' = other =>
              result'.value.yearly_results = rm.yearly_results]_vars

\* A run over three projections has returned its ledger.
C18_Witness ==
    /\ RunReturned
    /\ Len(result.value.yearly_results) = 3
    /\ result.value.yearly_results[3].year = 3

\* irr a < irr b, for two IRRs over the same number of years: the IRR is 0 when
\* its zero flag is set, and moic^(1/years) - 1, increasing in moic, otherwise.
IrrBelow(a, b) ==
    IF a.zero /\ b.zero THEN FALSE
    ELSE IF a.zero THEN MoicLess(<<1, 1>>, b.moic)
    ELSE IF b.zero THEN MoicLess(a.moic, <<1, 1>>)
    ELSE MoicLess(a.moic, b.moic)

\* Two run_model() calls with the same arguments have returned, the model of the
\* second differing from that of the first in exit_multiple only, and larger there.
ExitMultipleRaised ==
    /\ RunReturned
    /\ prev_result.returned
    /\ prev_result.args = result.args
    /\ prev_result.model = [result.model EXCEPT !.exit_multiple = prev_result.model.exit_multiple]
    /\ prev_result.model.exit_multiple < result.model.exit_multiple

\* The same, the second model's exit_multiple the smaller.
ExitMultipleLowered ==
    /\ RunReturned
    /\ prev_result.returned
    /\ prev_result.args = result.args
    /\ prev_result.model = [result.model EXCEPT !.exit_multiple = prev_result.model.exit_multiple]
    /\ prev_result.model.exit_multiple > result.model.exit_multiple

StrictlyLarger(hi, lo) ==
    /\ MoicLess(lo.moic, hi.moic)
    /\ IrrBelow(lo.irr, hi.irr)

\* The entry equity is positive, the final year's EBITDA is positive, and the
\* run at the smaller exit_multiple ended with positive exit equity.
PositiveReturn(lo) ==
    /\ lo.entry_equity > 0
    /\ projections[Len(projections)].ebitda > 0
    /\ lo.exit_equity > 0

\* C13 as stated: of two models that differ only in exit_multiple, the one with
\* the larger exit_multiple has strictly larger MOIC and strictly larger IRR.
C13_Original ==
    /\ ExitMultipleRaised => StrictlyLarger(result.value, prev_result.value)
    /\ ExitMultipleLowered => StrictlyLarger(prev_result.value, result.value)

\* C13 amended: of two models that differ only in exit_multiple, the one with
\* the larger exit_multiple has strictly larger MOIC and strictly larger IRR,
\* when the entry equity, the final year's EBITDA and the exit equity at the
\* smaller exit_multiple are all positive.
C13_ExitMultipleRaisesReturn ==
    /\ ExitMultipleRaised /\ PositiveReturn(prev_result.value)
           => StrictlyLarger(result.value, prev_result.value)
    /\ ExitMultipleLowered /\ PositiveReturn(result.value)
           => StrictlyLarger(prev_result.value, result.value)

\* The exit multiple was raised between two runs of a model that pays debt down
\* over several years, and both runs returned a gain.
C13_Witness ==
    /\ ExitMultipleRaised
    /\ PositiveReturn(prev_result.value)
    /\ Len(projections) >= 2
    /\ result.value.total_debt_paydown > 0
    /\ MoicLess(<<1, 1>>, prev_result.value.moic)

SimpleBuilt == built.by = "simple_lbo"

\* C19: simple_lbo builds a model with exactly one non-revolver tranche of amount
\* entry_ebitda x leverage_turns at 1% amortization, and exactly hold_years
\* projections with year indices 1..hold_years, year t carrying EBITDA =
\* entry_ebitda x (1 + ebitda_growth)^t, capex = capex_pct x EBITDA, depreciation
\* = 10% of EBITDA, delta_nwc = 0 and the given tax_rate.
C19_SimpleLboBuild ==
    SimpleBuilt =>
        LET a == built.args IN
        /\ entry_ebitda = a.entry_ebitda * SimpleUnit(a.hold_years)
        /\ Len(debt_tranches) = 1
        /\ ~debt_tranches[1].is_revolver
        /\ debt_tranches[1].amount = entry_ebitda * a.leverage_turns
        /\ debt_tranches[1].amortization_rate[1] * 100
               = debt_tranches[1].amortization_rate[2]
        /\ Len(projections) = a.hold_years
        /\ \A t \in 1..Len(projections) :
              LET p == projections[t] IN
              /\ p.year = t
              /\ p.ebitda = entry_ebitda * Pow(1 + a.ebitda_growth, t)
              /\ p.capex * RateDen = a.capex_pct * p.ebitda
              /\ p.depreciation * 10 = p.ebitda
              /\ p.delta_nwc = 0
              /\ p.tax_rate = a.tax_rate

\* simple_lbo has just built a two-year model with growth, capex and leverage.
C19_Witness ==
    /\ SimpleBuilt
    /\ last.call = "simple_lbo"
    /\ built.args.hold_years = 2
    /\ built.args.ebitda_growth > 0
    /\ built.args.capex_pct > 0
    /\ built.args.leverage_turns > 1
    /\ projections[2].ebitda > projections[1].ebitda

\* Two run_model() calls with the same arguments have returned, on two models
\* simple_lbo built that differ only in leverage_turns, the second the larger.
LeverageRaised ==
    /\ RunReturned
    /\ prev_result.returned
    /\ prev_result.args = result.args
    /\ SimpleBuilt
    /\ prev_result.model.built.by = "simple_lbo"
    /\ prev_result.model.built.args
           = [built.args EXCEPT !.leverage_turns =
                                    prev_result.model.built.args.leverage_turns]
    /\ prev_result.model.built.args.leverage_turns < built.args.leverage_turns

\* The same, the second model's leverage_turns the smaller.
LeverageLowered ==
    /\ RunReturned
    /\ prev_result.returned
    /\ prev_result.args = result.args
    /\ SimpleBuilt
    /\ prev_result.model.built.by = "simple_lbo"
    /\ prev_result.model.built.args
           = [built.args EXCEPT !.leverage_turns =
                                    prev_result.model.built.args.leverage_turns]
    /\ prev_result.model.built.args.leverage_turns > built.args.leverage_turns

\* Free cash flow, which is net of the interest, is positive in every year.
PositiveFcf(r) == \A y \in 1..Len(r.yearly_results) : r.yearly_results[y].fcf > 0

CostOfDebt ==
    <<FeeDen * Pow(RateDen + built.args.interest_rate, built.args.hold_years),
      (FeeDen - financing_fees_pct) * Pow(RateDen, built.args.hold_years)>>

\* Both entry equities are positive and the MOIC at the lower leverage, net of
\* the financing fee, exceeds (1 + interest_rate)^hold_years.
ReturnBeatsDebt(lo, hi) ==
    /\ lo.entry_equity > 0
    /\ hi.entry_equity > 0
    /\ MoicLess(CostOfDebt, lo.moic)

BothInProgress == other.live /\ pc \in RunSteps /\ other.pc \in RunSteps

\* Both invocations have returned.
BothReturned ==
    /\ other.live
    /\ pc = "idle"
    /\ other.pc = "idle"
    /\ result.returned
    /\ other.result.returned
    /\ prev_result.returned

\* C15 as stated: the tranche balances two interleaved run_model() invocations
\* mutate are state shared through the instance, so that one invocation's
\* payments show in the balances the other works on.
C15_Original == BothInProgress => rm.debt_balances = other.rm.debt_balances

\* C15 amended: two run_model() invocations interleaved on one instance do not
\* interfere; whatever the interleaving, each returns the result that the same
\* call returned when it ran alone.
C15_InterleavedRunsAgree ==
    BothReturned =>
        /\ result.value = prev_result.value
        /\ other.result.value = prev_result.value
        /\ debt_tranches = prev_result.model.debt_tranches

\* Both invocations have returned from a run over several years in which they
\* alternated while their balances differed, and debt was paid down.
C15_Witness ==
    /\ BothReturned
    /\ other.mixed
    /\ Len(projections) >= 2
    /\ result.value.total_debt_paydown > 0

\* The tax of a year: (EBITDA - depreciation - interest) x tax_rate, floored at 0.
TaxesDue(proj, interest) ==
    LET due == (proj.ebitda - proj.depreciation - interest) * proj.tax_rate
    IN  IF due > 0 THEN due \div RateDen ELSE 0

\* fcf = EBITDA - I - taxes - capex - delta_nwc, the taxes those due on I.
FcfOf(proj, interest, fcf) ==
    fcf = proj.ebitda - interest - TaxesDue(proj, interest) - proj.capex
              - proj.delta_nwc

\* C22: the free cash flow of a year with total interest I is EBITDA - I -
\* max(0, (EBITDA - depreciation - I) x tax_rate) - capex - delta_nwc, in the
\* call's working state once the year's interest loop has run and in every
\* ledger row; a negative taxable income adds no refund.
C22_FcfTaxFlooredAtZero ==
    /\ pc \in {"rm_amort", "rm_sweep", "rm_revolver"} /\ rm.bound
           => FcfOf(projections[rm.year], rm.total_interest, rm.fcf)
    /\ InRunModel =>
           \A k \in 1..Len(rm.yearly_results) :
               FcfOf(projections[k], rm.yearly_results[k].interest_expense,
                     rm.yearly_results[k].fcf)
    /\ RunReturned =>
           \A k \in 1..Len(result.value.yearly_results) :
               FcfOf(projections[k], result.value.yearly_results[k].interest_expense,
                     result.value.yearly_results[k].fcf)

\* A run has returned with a year of negative taxable income at a positive tax
\* rate, its free cash flow EBITDA - I - capex - delta_nwc.
C22_Witness ==
    /\ RunReturned
    /\ \E k \in 1..Len(result.value.yearly_results) :
          LET row == result.value.yearly_results[k]
              p == projections[k]
          IN  /\ p.tax_rate > 0
              /\ p.ebitda - p.depreciation - row.interest_expense < 0
              /\ row.fcf = p.ebitda - row.interest_expense - p.capex - p.delta_nwc

\* The step of a run that pays the year's mandatory amortization.
AmortizationStep == pc = "rm_amort" /\ pc' = "rm_sweep" /\ other' = other

\* min(original amount x amortization_rate, current balance)
ScheduledPayment(t) ==
    Min((t.amount * t.amortization_rate[1]) \div t.amortization_rate[2],
        rm.debt_balances[t.name])

\* C23: each year, the mandatory amortization reduces every non-revolver
\* tranche's balance by exactly min(original amount x amortization_rate, current
\* balance), leaves every revolver's balance alone whatever its
\* amortization_rate, and mandatory_paydown is the sum of the payments.
C23_AmortizationOnOriginalPrincipal ==
    [][AmortizationStep =>
          /\ \A i \in 1..Len(debt_tranches) :
                LET t == debt_tranches[i] IN
                rm'.debt_balances[t.name]
                    = IF t.is_revolver THEN rm.debt_balances[t.name]
                      ELSE rm.debt_balances[t.name] - ScheduledPayment(t)
          /\ rm'.mandatory_paydown
                = SeqSum([i \in 1..Len(debt_tranches) |->
                             IF debt_tranches[i].is_revolver THEN 0
                             ELSE ScheduledPayment(debt_tranches[i])])]_vars

\* In a later year a tranche has paid its full schedule on the original
\* principal out of a balance already below it.
C23_Witness ==
    /\ pc = "rm_sweep"
    /\ rm.year >= 2
    /\ rm.mandatory_paydown > 0
    /\ \E i \in 1..Len(debt_tranches) :
          LET t == debt_tranches[i] IN
          /\ ~t.is_revolver
          /\ rm.mandatory_paydown
                 = (t.amount * t.amortization_rate[1]) \div t.amortization_rate[2]
          /\ rm.debt_balances[t.name] + rm.mandatory_paydown < t.amount

\* The step of a run that sweeps the year's cash.
SweepStep == pc = "rm_sweep" /\ pc' = "rm_revolver" /\ other' = other

\* The sum of the non-revolver balances in d.
NonRevolverDebt(d) ==
    SeqSum([i \in 1..Len(debt_tranches) |->
               IF debt_tranches[i].is_revolver THEN 0
               ELSE d[debt_tranches[i].name]])

InterestOn(d) ==
    SeqSum([i \in 1..Len(debt_tranches) |->
               (d[debt_tranches[i].name] * debt_tranches[i].interest_rate)
                   \div RateDen])

\* C25: the interest and the free cash flow of a year are those of the balances
\* at the start of the year, before its amortization, sweep and revolver change,
\* and they are what the year's ledger row records; run_model() returns the same
\* result for every max_iterations >= 1 and every convergence_threshold.
C25_InterestOnOpeningBalances ==
    /\ [](pc = "rm_amort" /\ rm.bound =>
             /\ rm.total_interest = InterestOn(rm.debt_balances)
             /\ FcfOf(projections[rm.year], InterestOn(rm.debt_balances), rm.fcf))
    /\ [][RevolverStep =>
             /\ rm'.yearly_results[rm.year].interest_expense = rm.total_interest
             /\ rm'.yearly_results[rm.year].fcf = rm.fcf]_vars
    /\ [][(pc \in {"rm_amort", "rm_sweep", "rm_revolver"} /\ other' = other) =>
             (rm'.total_interest = rm.total_interest /\ rm'.fcf = rm.fcf)]_vars
    /\ [](/\ RunReturned
          /\ prev_result.returned
          /\ SameAssumptions(prev_result.model, result.model)
          /\ prev_result.args.max_iterations >= 1
          /\ result.args.max_iterations >= 1
          => result.value = prev_result.value)

\* Two runs with different max_iterations and convergence_threshold have
\* returned, with interest paid in a second year on a balance paid down.
C25_Witness ==
    /\ RunReturned
    /\ prev_result.returned
    /\ SameAssumptions(prev_result.model, result.model)
    /\ prev_result.args.max_iterations # result.args.max_iterations
    /\ prev_result.args.convergence_threshold # result.args.convergence_threshold
    /\ Len(result.value.yearly_results) >= 2
    /\ result.value.yearly_results[2].interest_expense > 0
    /\ result.value.yearly_results[1].ending_debt < total_initial_debt

\* The trials of the solver so far: entry multiples tried and the IRRs run_model
\* returned at them, the tranche amounts, projections, fees and exit multiple
\* the same in all of them.
NonIncreasing(mids, irrs) ==
    \A i, j \in 1..Len(irrs) :
        mids[i] < mids[j] => ~IrrBelow(irrs[i], irrs[j])

\* C26 as stated: over the entry multiples the solver tries, the IRR run_model()
\* returns is monotonic non-increasing in entry_multiple.
C26_Original ==
    /\ pc \in {"sv_trial", "sv_compare"} => NonIncreasing(sv.mids, sv.irrs)
    /\ SolveReturned => NonIncreasing(solved.mids, solved.irrs)

\* The same over the multiples at which the entry equity is positive.
NonIncreasingAbove(mids, irrs) ==
    \A i, j \in 1..Len(irrs) :
        mids[i] < mids[j] /\ EquityAt(mids[i]) > 0
            => ~IrrBelow(irrs[i], irrs[j])

\* C26 amended: over the entry multiples the solver tries at which the entry
\* equity is positive, the IRR run_model() returns is monotonic non-increasing in
\* entry_multiple; at a multiple with entry equity <= 0 the IRR is 0, below the
\* IRR at a larger multiple.
C26_IrrFallsWhereEquityPositive ==
    /\ pc \in {"sv_trial", "sv_compare"} => NonIncreasingAbove(sv.mids, sv.irrs)
    /\ SolveReturned => NonIncreasingAbove(solved.mids, solved.irrs)

\* The solver has returned after trials at two multiples with positive entry
\* equity, the IRR strictly lower at the larger one.
C26_Witness ==
    /\ SolveReturned
    /\ \E i, j \in 1..Len(solved.irrs) :
          /\ solved.mids[i] < solved.mids[j]
          /\ EquityAt(solved.mids[i]) > 0
          /\ IrrBelow(solved.irrs[j], solved.irrs[i])

\* The headroom of revolver t under the balances d.
Headroom(t, d) == t.revolver_commitment - d[t.name]

\* The revolvers whose initial amount lies within [0, revolver_commitment].
RevolversWithinCommitment ==
    {i \in Revolvers : debt_tranches[i].amount \in 0..debt_tranches[i].revolver_commitment}

\* C27: a revolver whose initial amount lies in [0, revolver_commitment] keeps
\* its balance within [0, revolver_commitment] throughout run_model(); in a year
\* with a cash shortfall each revolver draws the shortfall capped at its
\* headroom, the run goes on to the next year or the exit, and the ledger row
\* records the capped draw and nothing of the rest of the shortfall.
C27_RevolverWithinCommitment ==
    /\ [](InRunModel =>
            \A i \in RevolversWithinCommitment :
                rm.debt_balances[debt_tranches[i].name]
                    \in 0..debt_tranches[i].revolver_commitment)
    /\ [][(RevolverStep /\ rm.cash_for_sweep < 0) =>
            (/\ \A i \in Revolvers :
                   LET t == debt_tranches[i] IN
                   rm'.debt_balances[t.name] =
                       rm.debt_balances[t.name]
                           + Min(-rm.cash_for_sweep, Headroom(t, rm.debt_balances))
             /\ pc' \in {"rm_interest", "rm_exit"}
             /\ \A i \in Revolvers :
                   (\A j \in Revolvers : j <= i) =>
                       rm'.yearly_results[Len(rm'.yearly_results)].revolver_change
                           = Min(-rm.cash_for_sweep,
                                 Headroom(debt_tranches[i], rm.debt_balances)))]_vars

\* A year has ended with a shortfall larger than the revolver's headroom: the
\* revolver is drawn to its commitment, the row shows a draw smaller than the
\* shortfall, and the run goes on.
C27_Witness ==
    /\ pc \in {"rm_interest", "rm_exit"}
    /\ rm.year >= 2
    /\ rm.cash_for_sweep < 0
    /\ \E i \in RevolversWithinCommitment :
          LET t == debt_tranches[i]
              row == rm.yearly_results[Len(rm.yearly_results)]
          IN  /\ rm.debt_balances[t.name] = t.revolver_commitment
              /\ row.revolver_change > 0
              /\ row.revolver_change < -rm.cash_for_sweep

\* A step of one run_model() call from one of its positions to the next.
StepOfOneRun == InRunModel /\ InRunModel' /\ other' = other

C29_RunModelLeavesModelAlone ==
    /\ [][InRunModel =>
            /\ entry_multiple' = entry_multiple
            /\ exit_multiple' = exit_multiple
            /\ debt_tranches' = debt_tranches
            /\ projections' = projections]_vars
    /\ [](RunReturned =>
            /\ entry_multiple = pre.entry_multiple
            /\ exit_multiple = pre.exit_multiple
            /\ Amounts(debt_tranches) = Amounts(pre.debt_tranches)
            /\ projections = pre.projections)

\* A run has returned after paying down debt, its working balances below the
\* tranche amounts, which are those of before the call.
C29_Witness ==
    /\ RunReturned
    /\ result.value.total_debt_paydown > 0
    /\ result.value.exit_net_debt < total_initial_debt
    /\ debt_tranches = pre.debt_tranches

\* lbo_sensitivity has returned its table.
SensReturned == pc = "idle" /\ last.call = "lbo_sensitivity" /\ sa.at = "returned"

\* C30: lbo_sensitivity has the model's entry_multiple and exit_multiple back at
\* their pre-call values after every cell, a cell whose run_model() raised holds
\* NaN and the loop goes on to the next cell, and when the table is returned it
\* has every cell and the model is what it was before the call.
C30_SensitivityRestoresMultiples ==
    /\ [](pc = "sa_cell" =>
            /\ entry_multiple = sa.base_entry
            /\ exit_multiple = sa.base_exit)
    /\ [][pc = "sa_finally" =>
            /\ entry_multiple' = sa.base_entry
            /\ exit_multiple' = sa.base_exit
            /\ sa'.results = Append(sa.results, sa.cell)
            /\ (Len(sa'.results) < Len(sa.entry_multiples) * Len(sa.exit_multiples)
                    => pc' = "sa_cell")]_vars
    /\ [][(pc = "rm_exit" /\ rm.caller = "sensitivity" /\ other' = other) =>
            (/\ pc' = "sa_finally"
             /\ sa'.cell.nan = (Len(projections) = 0))]_vars
    /\ [](SensReturned =>
            /\ Len(sa.results) = Len(sa.entry_multiples) * Len(sa.exit_multiples)
            /\ entry_multiple = pre.entry_multiple
            /\ exit_multiple = pre.exit_multiple
            /\ debt_tranches = pre.debt_tranches
            /\ projections = pre.projections)

\* A table has been returned whose cells' run_model() raised and hold NaN, all
\* four of them stored, from a grid with none of the model's own multiples.
C30_Witness ==
    /\ SensReturned
    /\ Len(sa.results) = 4
    /\ \A k \in 1..4 : sa.results[k].nan
    /\ \A k \in 1..2 : sa.entry_multiples[k] # entry_multiple
    /\ \A k \in 1..2 : sa.exit_multiples[k] # exit_multiple

\* Some peer's equity is 0.
SomePeerEquityZero(equities) == \E i \in 1..Len(equities) : equities[i] = 0

\* C21: unlever and relever called with equity 0 raise ValueError; from_peers
\* raises ValueError when some peer's equity or the target equity is 0, and when
\* the three peer lists differ in length.
C21_ZeroEquityRaisesValueError ==
    /\ beta.call \in {"unlever", "relever"} /\ beta.args.equity = 0
           => beta.error = "ValueError"
    /\ beta.call = "from_peers"
           => /\ (SomePeerEquityZero(beta.args.peer_equities)
                     \/ beta.args.target_equity = 0)
                 => beta.error = "ValueError"
              /\ (Len(beta.args.peer_betas) # Len(beta.args.peer_debts)
                     \/ Len(beta.args.peer_betas) # Len(beta.args.peer_equities))
                 => beta.error = "ValueError"

====
